---- MODULE Spec2Model ----
(***************************************************************************)
(* The experiment pipeline of pd-tsp-solver: the benchmark runner          *)
(* (scripts/run_benchmarks.py), the Pareto front of report/                *)
(* analyze_and_plot.py, the load profile of scripts/visualize_solution.py, *)
(* the aggregation of scripts/aggregate_results.py, the gap to the exact   *)
(* solver of analyze_results.py, the sensitivity summary of scripts/       *)
(* aggregate_quadratic_results.py, the per-algorithm tables and the name   *)
(* normalization of report/analyze_and_plot.py, the categories of          *)
(* analyze_benchmark.py and the log of a job, as state machines.           *)
(***************************************************************************)
EXTENDS Integers, Sequences, FiniteSets, TLC

VARIABLES
    \* ---- run_benchmarks.main
    args,        \* the parsed command line
    algs,        \* the algorithm list of this batch
    pc,          \* where main is: idle, start, groups, jobs, wait, finished, aborted
    gi,          \* index of the current group in args.groups
    instances,   \* find_instances(group) of the current group
    pos,         \* the loop variables below the group loop: mode, inst, alg, run_id
    cmd,         \* the command line of the job that was launched last
    proc,        \* the solver process: none, running, overrun, exited
    exit_code,   \* its exit code once exited
    console,     \* the last line main printed
    njobs,       \* how many solver processes this batch has launched
    results,     \* what earlier batches left under results/: the paths each job wrote
    \* ---- analyze_and_plot.pareto_front
    df,          \* the rows handed to pareto_front, by label 1..Len(df)
    orig_idxs,   \* the labels of the rows dropna() keeps
    pf_i,        \* the outer loop's i (1-based)
    pareto_idxs, \* the labels collected so far
    pf,          \* the rows returned
    pf_pc,       \* idle, call, loop, done
    \* ---- visualize_solution
    demands,     \* the demand table of the instance: node id -> signed demand
    solution,    \* the solution file: whether it carries a load_profile, and which
    tour,        \* the entries of solution['tour'] read so far
    starting_load,
    load,
    load_profile,
    max_load,
    min_load,
    lp_pc,       \* idle, call, loop, stats, done
    \* ---- aggregate_results.py
    store,       \* the files under results/: path -> content
    batch,       \* the command line of the run_benchmarks batch that filled it
    agg_files,   \* sorted(RESULTS_ROOT.rglob('*.json'))
    agg_k,       \* the position of the loop in agg_files (1-based)
    rows,        \* the rows collected, which results.csv receives
    stats,       \* statistics.csv
    agg_console, \* the line printed at the end
    agg_run,     \* which run over the unchanged store this is: 1 or 2
    agg_first,   \* the outputs of the first run
    agg_pc,      \* idle, scan, loop, stats, plot, done
    \* ---- analyze_results.plot_exact_vs_best_heuristic
    exact_df,    \* exact_solver_all_costs.csv
    heuristic_df, \* the heuristic rows (constructive or metaheuristic)
    cost_funcs,  \* exact_df['CostFunction'].unique()
    gap_idx,     \* the position of the loop in cost_funcs (1-based)
    gaps,        \* per cost function, the instances and gaps of its panel
    gap_pc,      \* idle, call, loop, done
    \* ---- aggregate_quadratic_results.py
    sens_store,  \* results/quadratic_sensitivity: alpha directory -> its files
    sens_rows,   \* the rows collected
    best_per_alpha, \* quadratic_best_by_alpha.csv
    sens_pc,     \* idle, read, best, done, exit
    \* ---- analyze_and_plot.py: the n100 tables and compute_linear_vs_quadratic
    df_n100,     \* results.csv as read
    df_n100_quad, \* results_quadratic.csv as read
    cost_stats,  \* the cost statistics per algorithm (lines 58-62)
    feas,        \* the feasibility rate per algorithm (lines 72-75)
    merged,      \* what compute_linear_vs_quadratic returns
    rep_pc,      \* idle, cost, feas, delta, done
    \* ---- analyze_and_plot.py: normalize_algo on one cell of the algorithm column
    alg_cell,    \* the cell as read
    alg_feas,    \* the cell after line 74
    alg_combined, \* the cell of 'combined' after line 226
    norm_pc,     \* idle, feas, combined, done
    \* ---- analyze_benchmark.py
    bench_df,    \* the algorithm column of results/n100_benchmark/results.csv
    category,    \* df['category'], by row
    base_alg,    \* metaheuristics['base_alg'], by row of df (the other rows have none)
    meta_stats,  \* the groups of metaheuristics.groupby('base_alg')
    bench_pc,    \* idle, classify, meta, done
    \* ---- run_benchmarks.run and the solver process of one job
    log_path,    \* log_out of the job
    log_file,    \* the bytes of the file at log_path
    offset,      \* the file position of each of the two open files (stdout_f, stderr_f)
    sent,        \* how many bytes the process has written to each of its streams
    log_exit,    \* the exit code of the process
    log_console, \* what main printed for the job
    log_pc,      \* idle, open, child, exited, done
    \* ---- analyze_and_plot.py: the caller of pareto_front
    pf_sorted,   \* pf.sort_values('time'), whose columns plt.plot receives
    plot_pc      \* idle, plotted

runner_vars == <<args, algs, pc, gi, instances, pos, cmd, proc, exit_code,
                 console, njobs, results>>

pareto_vars == <<df, orig_idxs, pf_i, pareto_idxs, pf, pf_pc>>

load_vars == <<demands, solution, tour, starting_load, load, load_profile,
               max_load, min_load, lp_pc>>

agg_vars == <<store, batch, agg_files, agg_k, rows, stats, agg_console, agg_run,
              agg_first, agg_pc>>

gap_vars == <<exact_df, heuristic_df, cost_funcs, gap_idx, gaps, gap_pc>>

sens_vars == <<sens_store, sens_rows, best_per_alpha, sens_pc>>

rep_vars == <<df_n100, df_n100_quad, cost_stats, feas, merged, rep_pc>>

norm_vars == <<alg_cell, alg_feas, alg_combined, norm_pc>>

bench_vars == <<bench_df, category, base_alg, meta_stats, bench_pc>>

log_vars == <<log_path, log_file, offset, sent, log_exit, log_console, log_pc>>

plot_vars == <<pf_sorted, plot_pc>>

misc_vars == <<norm_vars, bench_vars, log_vars, plot_vars>>

analysis_vars == <<agg_vars, gap_vars, sens_vars, rep_vars, misc_vars>>

vars == <<runner_vars, pareto_vars, load_vars, analysis_vars>>

------------------------------------------------------------------------------
(* Bounds of the model. *)
MaxGroups == 2
MaxModes == 2
MaxRuns == 2
MaxRows == 3
MaxTime == 3
MaxCostUnits == 2
MaxNode == 3
MaxTour == 4

------------------------------------------------------------------------------
(* Strings. *)

StartsWith(s, p) == Len(s) >= Len(p) /\ SubSeq(s, 1, Len(p)) = p

EndsWith(s, p) == Len(s) >= Len(p) /\ SubSeq(s, Len(s) - Len(p) + 1, Len(s)) = p

Digits == <<"0", "1", "2", "3", "4", "5", "6", "7", "8", "9">>

RECURSIVE Str(_)
\* str(k) of a non-negative integer
Str(k) == IF k < 10 THEN Digits[k + 1] ELSE Str(k \div 10) \o Digits[(k % 10) + 1]

RECURSIVE Filter(_, _)
\* the entries of s that are in the set keep, in the order of s
Filter(s, keep) ==
    IF s = <<>> THEN <<>>
    ELSE (IF Head(s) \in keep THEN <<Head(s)>> ELSE <<>>) \o Filter(Tail(s), keep)

Range(s) == {s[k] : k \in 1..Len(s)}

SeqsUpTo(S, n) == UNION {[1..k -> S] : k \in 1..n}

------------------------------------------------------------------------------
(* run_benchmarks.py: the registry, the file system it reads, the paths. *)

\* The registry: heuristics first, 'exact' last (three of its entries).
ALGORITHMS == <<"nn", "two-opt", "exact">>

GroupNames == {"n20", "n30"}

ModeNames == {"distance", "quadratic", "linear"}

AlphaArgs == {"0.1", "0.2"}

\* benchmark_work/<group>: the directories that exist, with their entries.
BENCHMARK_WORK == [n20 |-> {"n20mosB.tsp", "n20mosA.tsp", "n20mosA.log"}]

\* Datasets/TS2004t2
DATASETS == {"n20mosA.tsp", "n40mosA.tsp"}

\* Every file name, in the order sorted() puts paths of one directory.
PathOrder == <<"n20mosA.log", "n20mosA.tsp", "n20mosB.tsp", "n40mosA.tsp">>

Glob(dir, group) == {p \in dir : StartsWith(p, group) /\ EndsWith(p, ".tsp")}

find_instances(group) ==
    LET dirp == IF group \in DOMAIN BENCHMARK_WORK THEN BENCHMARK_WORK[group]
                ELSE DATASETS
    IN  Filter(PathOrder, Glob(dirp, group))

\* Path.stem of a file name with a four-character suffix
Stem(name) == SubSeq(name, 1, Len(name) - 4)

Alias(mode) == IF mode = "linear" THEN "linear-load" ELSE mode

OutDir(group, mode) == "results/" \o group \o "_" \o mode

RunTag(inst, alg, run_id) == Stem(inst) \o "_" \o alg \o "_run" \o Str(run_id)

JsonOut(group, mode, inst, alg, run_id) ==
    OutDir(group, mode) \o "/" \o RunTag(inst, alg, run_id) \o ".json"

LogOut(group, mode, inst, alg, run_id) ==
    OutDir(group, mode) \o "/" \o RunTag(inst, alg, run_id) \o ".log"

NoAlpha == "-"

TimeLimit == 60

MaxProfit == 100

\* The solver's command line: what the job is.
Command(a, group, mode, inst, alg, run_id) ==
    [i |-> inst, a |-> alg, t |-> TimeLimit, max_profit |-> MaxProfit,
     cost_function |-> IF mode \in {"quadratic", "linear-load"} THEN mode ELSE "distance",
     alpha |-> IF mode \in {"quadratic", "linear-load"} THEN a.alpha ELSE NoAlpha,
     output |-> JsonOut(group, mode, inst, alg, run_id),
     log |-> LogOut(group, mode, inst, alg, run_id)]

\* The identity of a job: its command line without the places it writes to,
\* and its repetition index.
Identity(c, run_id) ==
    [i |-> c.i, a |-> c.a, t |-> c.t, max_profit |-> c.max_profit,
     cost_function |-> c.cost_function, alpha |-> c.alpha, run |-> run_id]

\* Lines 79-81, with 'or' for 'and': 'exact' is kept only with both flags.
SelectAlgsNeedsBothFlags(a) ==
    IF ~a.build_gurobi \/ ~a.include_exact
    THEN Filter(ALGORITHMS, {x \in {ALGORITHMS[k] : k \in 1..Len(ALGORITHMS)} : x # "exact"})
    ELSE ALGORITHMS

\* Lines 79-81: the algorithm list.
SelectAlgs(a) ==
    IF ~a.build_gurobi /\ ~a.include_exact
    THEN Filter(ALGORITHMS, {x \in {ALGORITHMS[k] : k \in 1..Len(ALGORITHMS)} : x # "exact"})
    ELSE ALGORITHMS

NoPos == [m |-> 0, i |-> 0, a |-> 0, r |-> 0]

NoCmd == [i |-> "", a |-> "", t |-> 0, max_profit |-> 0, cost_function |-> "",
          alpha |-> NoAlpha, output |-> "", log |-> ""]

\* Lines 102-113, with the run loop outside the algorithm loop.
NextPosRunLoopOutside(p, nModes, nInst, nAlgs, runs) ==
    IF p.a < nAlgs THEN [p EXCEPT !.a = p.a + 1]
    ELSE IF p.r + 1 < runs THEN [p EXCEPT !.a = 1, !.r = p.r + 1]
    ELSE IF p.i < nInst THEN [p EXCEPT !.r = 0, !.a = 1, !.i = p.i + 1]
    ELSE [m |-> p.m + 1, i |-> 1, a |-> 1, r |-> 0]

\* Lines 102-113: the loop variables of the job after p in the loops below the
\* group loop (mode, instance, algorithm, run); m beyond the modes when there
\* is none.
NextPos(p, nModes, nInst, nAlgs, runs) ==
    IF p.r + 1 < runs THEN [p EXCEPT !.r = p.r + 1]
    ELSE IF p.a < nAlgs THEN [p EXCEPT !.r = 0, !.a = p.a + 1]
    ELSE IF p.i < nInst THEN [p EXCEPT !.r = 0, !.a = 1, !.i = p.i + 1]
    ELSE [m |-> p.m + 1, i |-> 1, a |-> 1, r |-> 0]

FirstPos(runs, nModes) ==
    IF runs > 0 THEN [m |-> 1, i |-> 1, a |-> 1, r |-> 0]
    ELSE [m |-> nModes + 1, i |-> 1, a |-> 1, r |-> 0]

------------------------------------------------------------------------------
(* main *)

PfIdle ==
    /\ df = <<>>
    /\ orig_idxs = <<>>
    /\ pf_i = 0
    /\ pareto_idxs = <<>>
    /\ pf = <<>>
    /\ pf_pc = "idle"

LpIdle ==
    /\ demands = <<>>
    /\ solution = [has_load_profile |-> FALSE, load_profile |-> <<>>]
    /\ tour = <<>>
    /\ starting_load = 0
    /\ load = 0
    /\ load_profile = <<>>
    /\ max_load = 0
    /\ min_load = 0
    /\ lp_pc = "idle"

RunnerIdle ==
    /\ args = [groups |-> <<>>, cost_modes |-> <<>>, runs |-> 0, alpha |-> "",
               build_gurobi |-> FALSE, include_exact |-> FALSE]
    /\ algs = <<>>
    /\ pc = "idle"
    /\ gi = 0
    /\ instances = <<>>
    /\ pos = [m |-> 0, i |-> 0, a |-> 0, r |-> 0]
    /\ cmd = [i |-> "", a |-> "", t |-> 0, max_profit |-> 0, cost_function |-> "",
              alpha |-> "-", output |-> "", log |-> ""]
    /\ proc = "none"
    /\ exit_code = 0
    /\ console = ""
    /\ njobs = 0
    /\ results = {}

NoBatch == [groups |-> <<>>, cost_modes |-> <<>>, runs |-> 0, alpha |-> "",
            build_gurobi |-> FALSE, include_exact |-> FALSE]

AggIdle ==
    /\ store = <<>>
    /\ batch = NoBatch
    /\ agg_files = <<>>
    /\ agg_k = 0
    /\ rows = <<>>
    /\ stats = <<>>
    /\ agg_console = ""
    /\ agg_run = 0
    /\ agg_first = <<>>
    /\ agg_pc = "idle"

GapIdle ==
    /\ exact_df = <<>>
    /\ heuristic_df = <<>>
    /\ cost_funcs = <<>>
    /\ gap_idx = 0
    /\ gaps = <<>>
    /\ gap_pc = "idle"

SensIdle ==
    /\ sens_store = <<>>
    /\ sens_rows = <<>>
    /\ best_per_alpha = <<>>
    /\ sens_pc = "idle"

RepIdle ==
    /\ df_n100 = <<>>
    /\ df_n100_quad = <<>>
    /\ cost_stats = <<>>
    /\ feas = <<>>
    /\ merged = <<>>
    /\ rep_pc = "idle"

NoCell == [na |-> TRUE]

NormIdle ==
    /\ alg_cell = NoCell
    /\ alg_feas = NoCell
    /\ alg_combined = NoCell
    /\ norm_pc = "idle"

BenchIdle ==
    /\ bench_df = <<>>
    /\ category = <<>>
    /\ base_alg = <<>>
    /\ meta_stats = {}
    /\ bench_pc = "idle"

LogIdle ==
    /\ log_path = ""
    /\ log_file = <<>>
    /\ offset = [stdout |-> 0, stderr |-> 0]
    /\ sent = [stdout |-> 0, stderr |-> 0]
    /\ log_exit = 0
    /\ log_console = ""
    /\ log_pc = "idle"

PlotIdle ==
    /\ pf_sorted = <<>>
    /\ plot_pc = "idle"

MiscIdle == NormIdle /\ BenchIdle /\ LogIdle /\ PlotIdle

AnalysisIdle == AggIdle /\ GapIdle /\ SensIdle /\ RepIdle /\ MiscIdle

ArgSpace ==
    [groups : SeqsUpTo(GroupNames, MaxGroups),
     cost_modes : SeqsUpTo(ModeNames, MaxModes),
     runs : 0..MaxRuns,
     alpha : AlphaArgs,
     build_gurobi : BOOLEAN,
     include_exact : BOOLEAN]

InitRunner(a) ==
    /\ args = a
    /\ algs = <<>>
    /\ pc = "start"
    /\ gi = 0
    /\ instances = <<>>
    /\ pos = NoPos
    /\ cmd = NoCmd
    /\ proc = "none"
    /\ exit_code = 0
    /\ console = ""
    /\ njobs = 0
    /\ results = {}

Init == (\E a \in ArgSpace : a.alpha = "0.1" /\ InitRunner(a)) /\ PfIdle /\ LpIdle
        /\ AnalysisIdle

\* Lines 78-95: the algorithm list, then the build with the gurobi feature,
\* whose failure raises out of main (the plain binary is taken to exist).
Start ==
    /\ pc = "start"
    /\ algs' = SelectAlgs(args)
    /\ \E built \in BOOLEAN :
          /\ (~built) => (args.build_gurobi \/ args.include_exact)
          /\ pc' = IF built THEN "groups" ELSE "aborted"
    /\ gi' = 1
    /\ UNCHANGED <<args, instances, pos, cmd, proc, exit_code, console, njobs, results>>
    /\ UNCHANGED <<pareto_vars, load_vars, analysis_vars>>

\* Lines 97-101 and 137, with 'break' for 'continue': a group without
\* instances ends the group loop.
GroupStepBreak ==
    /\ pc = "groups"
    /\ IF gi > Len(args.groups)
       THEN /\ pc' = "finished"
            /\ console' = "All runs finished"
            /\ UNCHANGED <<gi, instances, pos>>
       ELSE LET found == find_instances(args.groups[gi]) IN
            IF found = <<>>
            THEN /\ console' = "All runs finished"
                 /\ pc' = "finished"
                 /\ UNCHANGED <<gi, instances, pos>>
            ELSE /\ instances' = found
                 /\ pos' = FirstPos(args.runs, Len(args.cost_modes))
                 /\ pc' = "jobs"
                 /\ UNCHANGED <<gi, console>>
    /\ UNCHANGED <<args, algs, cmd, proc, exit_code, njobs, results>>
    /\ UNCHANGED <<pareto_vars, load_vars, analysis_vars>>

\* Lines 97-101 and 137: one turn of the group loop.
GroupStep ==
    /\ pc = "groups"
    /\ IF gi > Len(args.groups)
       THEN /\ pc' = "finished"
            /\ console' = "All runs finished"
            /\ UNCHANGED <<gi, instances, pos>>
       ELSE LET found == find_instances(args.groups[gi]) IN
            IF found = <<>>
            THEN /\ console' = "No instances found"
                 /\ gi' = gi + 1
                 /\ UNCHANGED <<pc, instances, pos>>
            ELSE /\ instances' = found
                 /\ pos' = FirstPos(args.runs, Len(args.cost_modes))
                 /\ pc' = "jobs"
                 /\ UNCHANGED <<gi, console>>
    /\ UNCHANGED <<args, algs, cmd, proc, exit_code, njobs, results>>
    /\ UNCHANGED <<pareto_vars, load_vars, analysis_vars>>

\* Lines 102-133: the loops below the group loop reach the next job and run() it.
Launch ==
    /\ pc = "jobs"
    /\ pos.m <= Len(args.cost_modes)
    /\ LET group == args.groups[gi]
           mode == Alias(args.cost_modes[pos.m])
           inst == instances[pos.i]
           alg == algs[pos.a]
           c == Command(args, group, mode, inst, alg, pos.r)
       IN  cmd' = c
    /\ proc' = "running"
    /\ pc' = "wait"
    /\ njobs' = njobs + 1
    /\ console' = "Running"
    /\ UNCHANGED <<args, algs, gi, instances, pos, exit_code, results>>
    /\ UNCHANGED <<pareto_vars, load_vars, analysis_vars>>

\* The loops below the group loop are exhausted: the next group.
GroupDone ==
    /\ pc = "jobs"
    /\ pos.m > Len(args.cost_modes)
    /\ gi' = gi + 1
    /\ pc' = "groups"
    /\ UNCHANGED <<args, algs, instances, pos, cmd, proc, exit_code, console, njobs,
                   results>>
    /\ UNCHANGED <<pareto_vars, load_vars, analysis_vars>>

\* Lines 41-50 and 132-135: check_call returns once the process has exited;
\* a non-zero exit raises CalledProcessError, which main prints.
Reap ==
    /\ pc = "wait"
    /\ proc = "exited"
    /\ console' = IF exit_code # 0 THEN "ERROR running" ELSE console
    /\ pos' = NextPos(pos, Len(args.cost_modes), Len(instances), Len(algs), args.runs)
    /\ pc' = "jobs"
    /\ proc' = "none"
    /\ exit_code' = 0
    /\ UNCHANGED <<args, algs, gi, instances, cmd, njobs, results>>
    /\ UNCHANGED <<pareto_vars, load_vars, analysis_vars>>

------------------------------------------------------------------------------
(* The solver process. *)

\* The process is still running when its time limit (-t) has passed.
SolverOverrun ==
    /\ proc = "running"
    /\ proc' = "overrun"
    /\ UNCHANGED <<args, algs, pc, gi, instances, pos, cmd, exit_code, console, njobs,
                   results>>
    /\ UNCHANGED <<pareto_vars, load_vars, analysis_vars>>

\* The process exits: 0 on success, non-zero on failure.
SolverExit ==
    /\ proc \in {"running", "overrun"}
    /\ \E code \in {0, 1} : exit_code' = code
    /\ proc' = "exited"
    /\ UNCHANGED <<args, algs, pc, gi, instances, pos, cmd, console, njobs, results>>
    /\ UNCHANGED <<pareto_vars, load_vars, analysis_vars>>

\* The paths every job of a finished batch with command line a wrote to (run()
\* opens each job's log), with the job's identity.
Written(a) ==
    {[output |-> c.output, log |-> c.log, id |-> Identity(c, c.run_id)] :
        c \in UNION UNION UNION UNION
          {{{{{[run_id |-> r] @@ Command(a, g, Alias(m), inst, alg, r) :
                  r \in 0..(a.runs - 1)} :
                alg \in Range(SelectAlgs(a))} :
              inst \in Range(find_instances(g))} :
            m \in Range(a.cost_modes)} :
          g \in Range(a.groups)}}

\* The same command line is run again with another --alpha; results/ is kept.
Rerun ==
    /\ pc = "finished"
    /\ \E al \in AlphaArgs : args' = [args EXCEPT !.alpha = al]
    /\ args' # args
    /\ algs' = <<>>
    /\ pc' = "start"
    /\ gi' = 0
    /\ instances' = <<>>
    /\ pos' = NoPos
    /\ cmd' = NoCmd
    /\ console' = ""
    /\ njobs' = 0
    /\ results' = results \cup Written(args)
    /\ UNCHANGED <<proc, exit_code>>
    /\ UNCHANGED <<pareto_vars, load_vars, analysis_vars>>

Next == Start \/ GroupStep \/ Launch \/ GroupDone \/ Reap \/ SolverOverrun \/ SolverExit

Spec == Init /\ [][Next]_vars

NextRerun == Next \/ Rerun

SpecRerun == Init /\ [][NextRerun]_vars

\* main's own steps are taken whenever they can be; a running process either
\* exits within its time limit or passes it; nothing makes a process that has
\* passed its time limit exit.
MainStep == Start \/ GroupStep \/ Launch \/ GroupDone \/ Reap

SolverWithinLimit == proc = "running" /\ (SolverOverrun \/ SolverExit)

FairSpec == Spec /\ WF_vars(MainStep) /\ WF_vars(SolverWithinLimit)

------------------------------------------------------------------------------
(* Properties of the runner. *)

\* C1: a failing job does not abort the batch: once a job is running, the
\* batch goes on and ends with 'All runs finished'.
C1_BatchEndsAfterFailingJob == (pc = "wait") ~> (pc = "finished")

\* C2: a solver process still running after its time limit is forcibly
\* terminated by the runner's own timeout, so it does not run forever.
C2_OverrunProcessIsTerminated == [](proc = "overrun" => <>(proc # "overrun"))

\* The nested enumeration group x cost mode x instance x algorithm x run index,
\* by position: a group contributes a block of |modes| * |instances| * |algs| *
\* runs consecutive jobs, and a job's place in its block is a mixed-radix number.
BlockSize(a, g) ==
    Len(a.cost_modes) * Len(find_instances(a.groups[g])) * Len(SelectAlgs(a)) * a.runs

RECURSIVE TotalJobs(_, _)
TotalJobs(a, g) == IF g > Len(a.groups) THEN 0 ELSE BlockSize(a, g) + TotalJobs(a, g + 1)

RECURSIVE ExpectedFrom(_, _, _)
\* the k-th job (k >= 1) counted from the block of group g
ExpectedFrom(a, g, k) ==
    IF k > BlockSize(a, g) THEN ExpectedFrom(a, g + 1, k - BlockSize(a, g))
    ELSE LET inst == find_instances(a.groups[g])
             sel == SelectAlgs(a)
             j == k - 1
         IN  <<g,
               (j \div (a.runs * Len(sel) * Len(inst))) + 1,
               inst[((j \div (a.runs * Len(sel))) % Len(inst)) + 1],
               sel[((j \div a.runs) % Len(sel)) + 1],
               j % a.runs>>

CurrentJob == <<gi, pos.m, instances[pos.i], algs[pos.a], pos.r>>

Rank(name) == CHOOSE k \in 1..Len(PathOrder) : PathOrder[k] = name

\* C3: the k-th solver invocation of a batch is the k-th entry of the nested
\* enumeration group x cost mode x instance (sorted) x algorithm x run index
\* over the groups that have instances, and a finished batch has made all of
\* them.
C3_InvocationsAreTheEnumeration ==
    /\ njobs <= TotalJobs(args, 1)
    /\ (pc = "wait") => (njobs >= 1 /\ CurrentJob = ExpectedFrom(args, 1, njobs))
    /\ (pc = "finished") => (njobs = TotalJobs(args, 1))
    /\ \A k \in 1..(Len(instances) - 1) : Rank(instances[k]) < Rank(instances[k + 1])

C3_Witness ==
    /\ pc = "finished"
    /\ njobs >= 8
    /\ Len(args.groups) = 2
    /\ \E g \in 1..2 : find_instances(args.groups[g]) = <<>>

\* C4: two jobs with different identities are never given the same artifact
\* path or the same log path.
C4_PathsInjectiveInIdentity ==
    (pc = "wait") =>
        \A e \in results :
            (e.id # Identity(cmd, pos.r)) => (e.output # cmd.output /\ e.log # cmd.log)

\* C5 as stated: a job with algorithm 'exact' only with --include-exact.
C5_ExactOnlyWithIncludeExact ==
    (pc = "wait" /\ cmd.a = "exact") => args.include_exact

\* C5, amended: 'exact' is run exactly when --include-exact or --build-gurobi
\* is given; with neither, the algorithm list is the registry minus 'exact'.
C5_ExactIffIncludeOrBuild ==
    LET optin == args.include_exact \/ args.build_gurobi IN
    /\ (pc \notin {"start", "aborted"}) =>
          /\ Range(algs) = Range(ALGORITHMS) \ (IF optin THEN {} ELSE {"exact"})
          /\ Len(algs) = Cardinality(Range(algs))
    /\ (pc = "wait" /\ cmd.a = "exact") => optin
    /\ (pc = "finished" /\ optin /\ njobs > 0) => (cmd.a = "exact")

C5_Witness ==
    /\ pc = "wait"
    /\ cmd.a = "exact"
    /\ args.build_gurobi
    /\ ~args.include_exact

\* The jobs of the groups of a that have instances.
RECURSIVE JobsOfGroupsWithInstances(_, _)
JobsOfGroupsWithInstances(a, g) ==
    IF g > Len(a.groups) THEN 0
    ELSE (IF find_instances(a.groups[g]) = <<>> THEN 0
          ELSE Len(a.cost_modes) * Len(find_instances(a.groups[g]))
                   * Len(SelectAlgs(a)) * a.runs)
         + JobsOfGroupsWithInstances(a, g + 1)

\* C25: a requested group without instance files is reported and skipped: no
\* job is launched for it, main does not abort on it, and a finished batch has
\* launched the jobs of every other group, before it and after it.
C25_EmptyGroupIsSkipped ==
    /\ (pc \in {"jobs", "wait"}) => find_instances(args.groups[gi]) # <<>>
    /\ (pc = "wait") => cmd.i \in Range(find_instances(args.groups[gi]))
    /\ (pc = "groups" /\ gi > 1 /\ find_instances(args.groups[gi - 1]) = <<>>)
           => console = "No instances found"
    /\ (pc = "aborted") => (njobs = 0 /\ console = "")
    /\ (pc = "finished") =>
           /\ gi = Len(args.groups) + 1
           /\ njobs = JobsOfGroupsWithInstances(args, 1)

C25_Witness ==
    /\ pc = "finished"
    /\ args.groups = <<"n30", "n20">>
    /\ find_instances("n30") = <<>>
    /\ njobs = 4
    /\ cmd.i = "n20mosB.tsp"

(* The cost modes the caller may give, beyond the known ones. *)

\* A value of --cost-modes that is none of distance, quadratic, linear-load, linear.
OtherModes == {"linear_load"}

ModeArgSpace ==
    [groups : {<<g>> : g \in GroupNames},
     cost_modes : SeqsUpTo(ModeNames \cup {"linear-load"} \cup OtherModes, MaxModes),
     runs : {1},
     alpha : {"0.1"},
     build_gurobi : {FALSE},
     include_exact : {FALSE}]

InitModes == (\E a \in ModeArgSpace : InitRunner(a)) /\ PfIdle /\ LpIdle /\ AnalysisIdle

SpecModes == InitModes /\ [][Next]_vars

\* The cost function the results directory of a job names: what follows the
\* first '_' of <group>_<mode> (the group names have no '_').
DirectoryMode(output) ==
    LET slashes == {k \in 1..Len(output) : SubSeq(output, k, k) = "/"}
        first == CHOOSE k \in slashes : \A h \in slashes : k <= h
        second == CHOOSE k \in slashes \ {first} : \A h \in slashes \ {first} : k <= h
        dir == SubSeq(output, first + 1, second - 1)
        at == CHOOSE k \in 1..Len(dir) :
                  SubSeq(dir, k, k) = "_" /\ \A h \in 1..(k - 1) : SubSeq(dir, h, h) # "_"
    IN  SubSeq(dir, at + 1, Len(dir))

\* C29: whatever --cost-modes holds, the cost function named by the results
\* directory of a job is the one passed to the solver with --cost-function.
C29_StoredUnderTheCostFunctionSolved ==
    (pc = "wait") => DirectoryMode(cmd.output) = cmd.cost_function

------------------------------------------------------------------------------
(* report/analyze_and_plot.py: pareto_front(df, 'time', 'cost') *)

\* A missing value (NaN) is <<>>, a present value v is <<v>>.
NaN == <<>>

TimeVals == {NaN} \cup {<<t>> : t \in 1..MaxTime}

CostVals == {NaN} \cup {<<5 * c>> : c \in 1..MaxCostUnits}

Rows == [time : TimeVals, cost : CostVals]

InitPareto ==
    /\ df \in {<<>>} \cup SeqsUpTo(Rows, MaxRows)
    /\ orig_idxs = <<>>
    /\ pf_i = 0
    /\ pareto_idxs = <<>>
    /\ pf = <<>>
    /\ pf_pc = "call"
    /\ RunnerIdle
    /\ LpIdle
    /\ AnalysisIdle

\* Line 208, with the strictness clause left out.
DominatedNoStrictness(x_i, y_i, x_j, y_j) == x_j <= x_i /\ y_j <= y_i

\* Line 208, with both comparisons strict.
DominatedBothStrict(x_i, y_i, x_j, y_j) == x_j < x_i /\ y_j < y_i

\* Line 208: point j dominates point i.
Dominated(x_i, y_i, x_j, y_j) ==
    x_j <= x_i /\ y_j <= y_i /\ (x_j < x_i \/ y_j < y_i)

\* Lines 199-202: dropna, the points and their labels.
PfDropna ==
    /\ pf_pc = "call"
    /\ orig_idxs' = Filter([k \in 1..Len(df) |-> k],
                           {k \in 1..Len(df) : df[k].time # NaN /\ df[k].cost # NaN})
    /\ pareto_idxs' = <<>>
    /\ pf_i' = 1
    /\ pf_pc' = "loop"
    /\ UNCHANGED <<df, pf>>
    /\ UNCHANGED <<runner_vars, load_vars, analysis_vars>>

\* Lines 203-212: one turn of the outer loop, the inner loop within it.
PfOuter ==
    /\ pf_pc = "loop"
    /\ pf_i <= Len(orig_idxs)
    /\ LET x_i == df[orig_idxs[pf_i]].time[1]
           y_i == df[orig_idxs[pf_i]].cost[1]
           dominated == \E j \in 1..Len(orig_idxs) :
                           /\ j # pf_i
                           /\ Dominated(x_i, y_i, df[orig_idxs[j]].time[1],
                                        df[orig_idxs[j]].cost[1])
       IN  pareto_idxs' = IF dominated THEN pareto_idxs
                          ELSE Append(pareto_idxs, orig_idxs[pf_i])
    /\ pf_i' = pf_i + 1
    /\ UNCHANGED <<df, orig_idxs, pf, pf_pc>>
    /\ UNCHANGED <<runner_vars, load_vars, analysis_vars>>

\* Line 214: df.loc[pareto_idxs]
PfReturn ==
    /\ pf_pc = "loop"
    /\ pf_i > Len(orig_idxs)
    /\ pf' = [k \in 1..Len(pareto_idxs) |->
                [label |-> pareto_idxs[k], time |-> df[pareto_idxs[k]].time,
                 cost |-> df[pareto_idxs[k]].cost]]
    /\ pf_pc' = "done"
    /\ UNCHANGED <<df, orig_idxs, pf_i, pareto_idxs>>
    /\ UNCHANGED <<runner_vars, load_vars, analysis_vars>>

NextPareto == PfDropna \/ PfOuter \/ PfReturn

\* the rows of s in another order
IsPermutation(t, s) ==
    /\ Len(t) = Len(s)
    /\ \E f \in [1..Len(s) -> 1..Len(s)] :
           /\ \A a, b \in 1..Len(s) : f[a] = f[b] => a = b
           /\ \A k \in 1..Len(s) : t[k] = s[f[k]]

\* the orders of the rows of s
Orders(s) ==
    {[k \in 1..Len(s) |-> s[f[k]]] :
        f \in {g \in [1..Len(s) -> 1..Len(s)] : \A a, b \in 1..Len(s) : g[a] = g[b] => a = b}}

\* sort_values('time') of rows that all have a time: the default sort is not
\* stable, so rows of equal time come in any order.
SortValuesByTime(s) ==
    {t \in Orders(s) : \A k \in 1..(Len(t) - 1) : t[k].time[1] <= t[k + 1].time[1]}

\* Lines 239-241, with the front plotted as pareto_front returned it.
PfPlotAsReturned ==
    /\ pf_pc = "done"
    /\ plot_pc = "idle"
    /\ pf_sorted' = pf
    /\ plot_pc' = "plotted"
    /\ UNCHANGED <<runner_vars, pareto_vars, load_vars, agg_vars, gap_vars, sens_vars,
                   rep_vars, norm_vars, bench_vars, log_vars>>

\* Lines 239-241 (and 286-288): the caller sorts the front by time and hands
\* its columns to plt.plot.
PfPlot ==
    /\ pf_pc = "done"
    /\ plot_pc = "idle"
    /\ pf_sorted' \in SortValuesByTime(pf)
    /\ plot_pc' = "plotted"
    /\ UNCHANGED <<runner_vars, pareto_vars, load_vars, agg_vars, gap_vars, sens_vars,
                   rep_vars, norm_vars, bench_vars, log_vars>>

NextParetoPlot == NextPareto \/ PfPlot

SpecPareto == InitPareto /\ [][NextParetoPlot]_vars

------------------------------------------------------------------------------
(* Properties of pareto_front. *)

Complete(r) == r.time # NaN /\ r.cost # NaN

\* Row q dominates row p.
Dominates(q, p) ==
    /\ Complete(q) /\ Complete(p)
    /\ q.time[1] <= p.time[1]
    /\ q.cost[1] <= p.cost[1]
    /\ (q.time[1] < p.time[1] \/ q.cost[1] < p.cost[1])

FrontLabels == {pf[k].label : k \in 1..Len(pf)}

NonDominated ==
    {k \in 1..Len(df) :
        Complete(df[k]) /\ ~ \E q \in 1..Len(df) : q # k /\ Dominates(df[q], df[k])}

Point(t, c) == [time |-> <<t>>, cost |-> <<c>>]

ExamplePoints == <<Point(1, 10), Point(2, 5), Point(3, 5)>>

\* C6: pareto_front returns exactly the rows that have both a time and a cost
\* and that no other such row dominates, each once; for the points (1,10),
\* (2,5), (3,5) the front is (1,10), (2,5).
C6_FrontIsTheNonDominatedRows ==
    (pf_pc = "done") =>
        /\ FrontLabels = NonDominated
        /\ Len(pf) = Cardinality(NonDominated)
        /\ \A k \in 1..Len(pf) :
              pf[k].time = df[pf[k].label].time /\ pf[k].cost = df[pf[k].label].cost
        /\ (df = ExamplePoints) =>
              ([k \in 1..Len(pf) |-> [time |-> pf[k].time, cost |-> pf[k].cost]]
                  = <<Point(1, 10), Point(2, 5)>>)

C6_Witness == pf_pc = "done" /\ df = ExamplePoints /\ Len(pf) = 2

\* C7 as stated: the front is a subset of the input rows, no row of it is
\* dominated by another row of it, and every input row left out is dominated
\* by a row of the front.
C7_EveryRowLeftOutIsDominated ==
    (pf_pc = "done") =>
        /\ FrontLabels \subseteq 1..Len(df)
        /\ \A a \in FrontLabels : \A b \in FrontLabels : ~Dominates(df[a], df[b])
        /\ \A k \in (1..Len(df)) \ FrontLabels :
              \E q \in FrontLabels : Dominates(df[q], df[k])

\* C7, amended: as stated, for the input rows that have both a time and a
\* cost; a row with a missing time or cost is left out and dominated by none.
C7_EveryCompleteRowLeftOutIsDominated ==
    (pf_pc = "done") =>
        /\ FrontLabels \subseteq 1..Len(df)
        /\ \A a \in FrontLabels : \A b \in FrontLabels : ~Dominates(df[a], df[b])
        /\ \A k \in (1..Len(df)) \ FrontLabels :
              IF Complete(df[k])
              THEN \E q \in FrontLabels : Dominates(df[q], df[k])
              ELSE ~ \E q \in 1..Len(df) : Dominates(df[q], df[k])

\* A row left out that another row left out dominates.
C7_Witness ==
    /\ pf_pc = "done"
    /\ \E k \in (1..Len(df)) \ FrontLabels : \E q \in (1..Len(df)) \ FrontLabels :
          Dominates(df[q], df[k])

\* C26: the front points handed to the plot are the front of pareto_front in
\* ascending order of time: times never decrease from one point to the next.
C26_FrontPlottedInTimeOrder ==
    (plot_pc = "plotted") =>
        /\ IsPermutation(pf_sorted, pf)
        /\ \A k \in 1..(Len(pf_sorted) - 1) :
               pf_sorted[k].time[1] <= pf_sorted[k + 1].time[1]

\* the front as returned is not in time order, the front as plotted is
C26_Witness ==
    /\ plot_pc = "plotted"
    /\ Len(pf) = 2
    /\ pf[1].time[1] > pf[2].time[1]
    /\ pf_sorted = <<pf[2], pf[1]>>

------------------------------------------------------------------------------
(* scripts/visualize_solution.py: the load profile of visualize_solution *)

\* Demands of the depot (node 0) and of the node with the highest id.
DepotDemands == {-5, -3, 0, 5}

\* Demands of the nodes between them.
CustomerDemands == {-3, 3}

\* The demand tables whose highest node id is hi: any node but hi may be
\* missing from the table.
TablesWithMax(hi) ==
    {d \in UNION {[D -> DepotDemands \cup CustomerDemands] : D \in SUBSET (0..hi)} :
        /\ hi \in DOMAIN d
        /\ \A n \in DOMAIN d :
              IF n \in {0, hi} THEN d[n] \in DepotDemands ELSE d[n] \in CustomerDemands}

DemandTables == UNION {TablesWithMax(hi) : hi \in 0..MaxNode}

Solutions ==
    {[has_load_profile |-> FALSE, load_profile |-> <<>>]}
    \cup {[has_load_profile |-> TRUE, load_profile |-> p] : p \in {<<>>, <<0, 3, 0>>}}

InitLoad ==
    /\ demands \in DemandTables
    /\ solution \in Solutions
    /\ tour = <<0>>
    /\ starting_load = 0
    /\ load = 0
    /\ load_profile = <<>>
    /\ max_load = 0
    /\ min_load = 0
    /\ lp_pc = "call"
    /\ RunnerIdle
    /\ PfIdle
    /\ AnalysisIdle

\* max(xs), min(xs) of a non-empty list
MaxOf(xs) == CHOOSE x \in Range(xs) : \A y \in Range(xs) : y <= x

MinOf(xs) == CHOOSE x \in Range(xs) : \A y \in Range(xs) : x <= y

\* demands.get(node, 0)
Get(d, node) == IF node \in DOMAIN d THEN d[node] ELSE 0

\* max(demands.keys())
MaxKey(d) == CHOOSE n \in DOMAIN d : \A k \in DOMAIN d : k <= n

\* Lines 67-77, with the sum floored at zero in every case.
StartingLoadAlwaysFloored(d) ==
    LET s == Get(d, 0) + Get(d, MaxKey(d)) IN IF s < 0 THEN 0 ELSE s

\* Lines 67-77: the starting load.
StartingLoad(d) ==
    LET n_nodes == MaxKey(d) + 1
        depot_demand == Get(d, 0)
        return_depot_demand == IF (n_nodes - 1) \in DOMAIN d THEN Get(d, n_nodes - 1) ELSE 0
    IN  IF depot_demand >= 0 /\ return_depot_demand < 0
        THEN (IF depot_demand + return_depot_demand > 0
              THEN depot_demand + return_depot_demand ELSE 0)
        ELSE IF return_depot_demand >= 0 /\ depot_demand < 0
        THEN (IF return_depot_demand + depot_demand > 0
              THEN return_depot_demand + depot_demand ELSE 0)
        ELSE depot_demand + return_depot_demand

\* Lines 82-85, without the reset at the depot.
StepLoadNoReset(l, node, d) == l + Get(d, node)

\* Lines 82-85, with the load floored at zero.
StepLoadClamped(l, node, d) ==
    IF node = 0 THEN 0 ELSE (IF l + Get(d, node) < 0 THEN 0 ELSE l + Get(d, node))

\* Lines 82-85: the load after one more node of the tour.
StepLoad(l, node, d) == IF node = 0 THEN 0 ELSE l + Get(d, node)

\* Lines 60-80: the solution's own load_profile, or the starting load.
LpStart ==
    /\ lp_pc = "call"
    /\ IF solution.has_load_profile
       THEN /\ load_profile' = solution.load_profile
            /\ lp_pc' = "stats"
            /\ UNCHANGED <<starting_load, load>>
       ELSE /\ starting_load' = StartingLoad(demands)
            /\ load_profile' = <<starting_load'>>
            /\ load' = starting_load'
            /\ lp_pc' = "loop"
    /\ UNCHANGED <<demands, solution, tour, max_load, min_load>>
    /\ UNCHANGED <<runner_vars, pareto_vars, analysis_vars>>

\* Lines 81-86: one turn of the loop over tour[1:], on the next node of the tour.
LpStep ==
    /\ lp_pc = "loop"
    /\ Len(tour) < MaxTour
    /\ \E node \in 0..MaxKey(demands) :
          /\ tour' = Append(tour, node)
          /\ load' = StepLoad(load, node, demands)
          /\ load_profile' = Append(load_profile, load')
    /\ UNCHANGED <<demands, solution, starting_load, max_load, min_load, lp_pc>>
    /\ UNCHANGED <<runner_vars, pareto_vars, analysis_vars>>

\* Line 87: the tour is exhausted; the return to the depot.
LpReturn ==
    /\ lp_pc = "loop"
    /\ load_profile' = Append(load_profile, 0)
    /\ lp_pc' = "stats"
    /\ UNCHANGED <<demands, solution, tour, starting_load, load, max_load, min_load>>
    /\ UNCHANGED <<runner_vars, pareto_vars, analysis_vars>>

\* Lines 137-146: Max Load and Min Load.
LpStats ==
    /\ lp_pc = "stats"
    /\ max_load' = IF load_profile # <<>> THEN MaxOf(load_profile) ELSE 0
    /\ min_load' = IF load_profile # <<>> THEN MinOf(load_profile) ELSE 0
    /\ lp_pc' = "done"
    /\ UNCHANGED <<demands, solution, tour, starting_load, load, load_profile>>
    /\ UNCHANGED <<runner_vars, pareto_vars, analysis_vars>>

NextLoad == LpStart \/ LpStep \/ LpReturn \/ LpStats

SpecLoad == InitLoad /\ [][NextLoad]_vars

------------------------------------------------------------------------------
(* Properties of the load profile. *)

\* The demand of a node, a missing one counting as 0.
DemandOf(node) == IF node \in DOMAIN demands THEN demands[node] ELSE 0

HighestNode == CHOOSE n \in DOMAIN demands : \A k \in DOMAIN demands : k <= n

Computed == ~solution.has_load_profile

\* C8: with d0 the demand of node 0 and dr the demand of the highest node id,
\* the starting load is max(0, d0 + dr) when d0 and dr have opposite signs
\* (d0 >= 0 and dr < 0, or dr >= 0 and d0 < 0) and d0 + dr, not floored,
\* otherwise.
C8_StartingLoadBySigns ==
    (lp_pc # "call" /\ Computed) =>
        LET d0 == DemandOf(0)
            dr == DemandOf(HighestNode)
        IN  IF (d0 >= 0 /\ dr < 0) \/ (dr >= 0 /\ d0 < 0)
            THEN /\ starting_load >= 0
                 /\ starting_load >= d0 + dr
                 /\ starting_load \in {0, d0 + dr}
            ELSE starting_load = d0 + dr

\* A floored start and, in another table, a negative one cannot be one state:
\* the negative, unfloored start.
C8_Witness ==
    /\ lp_pc = "loop"
    /\ Computed
    /\ starting_load < 0
    /\ 0 \in DOMAIN demands

\* C9: the computed profile of a tour with n entries has n + 1 entries: the
\* starting load, then for each later tour position 0 at the depot and else
\* the previous entry plus the node's demand, then a final 0.
C9_ProfileOfTour ==
    /\ (lp_pc = "loop") => (Len(load_profile) = Len(tour))
    /\ (lp_pc \in {"stats", "done"} /\ Computed) =>
          /\ Len(load_profile) = Len(tour) + 1
          /\ load_profile[1] = starting_load
          /\ \A i \in 2..Len(tour) :
                load_profile[i] = IF tour[i] = 0 THEN 0
                                  ELSE load_profile[i - 1] + DemandOf(tour[i])
          /\ load_profile[Len(tour) + 1] = 0

C9_Witness ==
    /\ lp_pc = "done"
    /\ Computed
    /\ Len(tour) = 4
    /\ tour[3] = 0
    /\ load_profile[2] # 0
    /\ load_profile[4] # 0

ExampleDemands == (0 :> 5) @@ (1 :> 3) @@ (2 :> -3) @@ (3 :> -5)

ExampleTour == <<0, 1, 2, 3>>

\* No entry after the starting load is floored: a step that takes the load
\* below zero leaves that negative value in the profile, and Min Load is the
\* minimum of the profile.
NegativeLoadSurfaced ==
    /\ \A i \in 2..Len(tour) :
          (tour[i] # 0 /\ load_profile[i - 1] + DemandOf(tour[i]) < 0) =>
              (load_profile[i] < 0 /\ min_load <= load_profile[i])
    /\ \A k \in 1..Len(load_profile) : min_load <= load_profile[k]
    /\ min_load \in Range(load_profile)

\* C10 as stated: negative loads are surfaced, and the example gives starting
\* load 0 and profile [0, 3, 0, -5].
C10_ExampleProfileOfFourEntries ==
    (lp_pc = "done" /\ Computed) =>
        /\ NegativeLoadSurfaced
        /\ (demands = ExampleDemands /\ tour = ExampleTour) =>
              (starting_load = 0 /\ load_profile = <<0, 3, 0, -5>>)

\* C10, amended: negative loads are surfaced, and the example gives starting
\* load 0, profile [0, 3, 0, -5, 0] (the return to the depot is its last
\* entry) and Min Load -5.
C10_NegativeLoadSurfaced ==
    (lp_pc = "done" /\ Computed) =>
        /\ NegativeLoadSurfaced
        /\ (demands = ExampleDemands /\ tour = ExampleTour) =>
              (starting_load = 0 /\ load_profile = <<0, 3, 0, -5, 0>> /\ min_load = -5)

C10_Witness ==
    /\ lp_pc = "done"
    /\ Computed
    /\ demands = ExampleDemands
    /\ tour = ExampleTour
    /\ min_load = -5

\* C30: when the highest node id of the demand table is 0 there is no return
\* depot: its demand counts as 0 and the starting load is the depot demand
\* (floored at zero or not), never twice the depot demand.
C30_DepotDemandCountedOnce ==
    (lp_pc # "call" /\ Computed /\ HighestNode = 0) =>
        starting_load \in {DemandOf(0), IF DemandOf(0) < 0 THEN 0 ELSE DemandOf(0)}

------------------------------------------------------------------------------
(* scripts/aggregate_results.py *)

MaxFiles == 2

\* A JSON field that is absent: j.get(k) is None.
None == <<>>

\* The characters of the paths, '/' first and the others in code-point order:
\* comparing paths part by part is comparing their text with the separator
\* below every character.
PathChars == "/-.0123456789ABCDEFGHIJKLMNOPQRSTUVWXYZ_abcdefghijklmnopqrstuvwxyz"

Ord(c) == CHOOSE k \in 1..Len(PathChars) : SubSeq(PathChars, k, k) = c

RECURSIVE StrLt(_, _)
\* a < b of two strings
StrLt(a, b) ==
    IF b = "" THEN FALSE
    ELSE IF a = "" THEN TRUE
    ELSE IF SubSeq(a, 1, 1) = SubSeq(b, 1, 1) THEN StrLt(Tail(a), Tail(b))
    ELSE Ord(SubSeq(a, 1, 1)) < Ord(SubSeq(b, 1, 1))

Contains(s, c) == \E k \in 1..Len(s) : SubSeq(s, k, k) = c

RECURSIVE Split(_, _)
\* s.split(sep) for a separator of one character
Split(s, sep) ==
    IF ~Contains(s, sep) THEN <<s>>
    ELSE LET k == CHOOSE i \in 1..Len(s) :
                      /\ SubSeq(s, i, i) = sep
                      /\ \A h \in 1..(i - 1) : SubSeq(s, h, h) # sep
         IN  <<SubSeq(s, 1, k - 1)>> \o Split(SubSeq(s, k + 1, Len(s)), sep)

Last(s) == s[Len(s)]

Reverse(s) == [k \in 1..Len(s) |-> s[Len(s) + 1 - k]]

RECURSIVE InsertSorted(_, _)
\* the string x put into the sorted list s
InsertSorted(x, s) ==
    IF s = <<>> THEN <<x>>
    ELSE IF StrLt(x, Head(s)) THEN <<x>> \o s
    ELSE <<Head(s)>> \o InsertSorted(x, Tail(s))

RECURSIVE Sorted(_)
\* sorted(s) of a list of strings
Sorted(s) == IF s = <<>> THEN <<>> ELSE InsertSorted(Head(s), Sorted(Tail(s)))

\* Every order in which a directory walk can yield the members of S.
Enumerations(S) ==
    {f \in [1..Cardinality(S) -> S] : \A h, k \in 1..Cardinality(S) : f[h] = f[k] => h = k}

\* Line 13 with the sort left out: the order of the directory walk.
ScanUnsorted(order) == order

\* Line 13: sorted(...)
Scan(order) == Sorted(order)

\* Line 13 with the pattern '*'.
IsAnyFile(p) == TRUE

\* Line 13: rglob('*.json')
IsJson(p) == EndsWith(p, ".json")

\* Line 7: the parts of the repository's directory.
ROOT == <<"/", "pd-tsp-solver">>

\* jf.parts of a path given from the repository's directory
Parts(p) == ROOT \o Split(p, "/")

\* jf.stem of a path that ends in .json
JsonStem(p) == LET name == Last(Split(p, "/")) IN SubSeq(name, 1, Len(name) - 5)

\* j.get(k)
JGet(j, k) == IF k \in DOMAIN j THEN <<j[k]>> ELSE None

\* a or b, for numbers and for strings
OrNum(a, b) == IF a # None /\ a[1] # 0 THEN a ELSE b

OrStr(a, b) == IF a # None /\ a[1] # "" THEN a ELSE b

\* Lines 28-31: the first part, from the file name upwards, that has a '_' and
\* starts with 'n', split at '_': its last piece.
FolderLabel(p) ==
    LET rev == Reverse(Parts(p))
        hits == {k \in 1..Len(rev) : Contains(rev[k], "_") /\ StartsWith(rev[k], "n")}
    IN  IF hits = {} THEN None
        ELSE LET k == CHOOSE h \in hits : \A g \in hits : h <= g
             IN  <<Last(Split(rev[k], "_"))>>

\* Lines 24-38
CostFunctionOf(p, j) ==
    LET explicit == OrStr(JGet(j, "cost_function"), JGet(j, "costFunction"))
        cf1 == IF explicit # None /\ explicit[1] # "" THEN explicit
               ELSE IF FolderLabel(p) # None THEN FolderLabel(p) ELSE explicit
        stem == JsonStem(p)
    IN  IF cf1 # None /\ cf1[1] # "" THEN cf1[1]
        ELSE IF EndsWith(stem, "_quadratic") THEN "quadratic"
        ELSE IF EndsWith(stem, "_linear-load") \/ EndsWith(stem, "_linear_load")
             THEN "linear-load"
        ELSE "distance"

\* Lines 18-41: the row of one artifact.
Row(p, j) ==
    LET stem == JsonStem(p)
    IN  [instance |-> Split(stem, "_")[1],
         algorithm |-> IF Contains(stem, "_")
                       THEN OrStr(OrStr(JGet(j, "algorithm"), JGet(j, "Algorithm")),
                                  <<Split(stem, "_")[2]>>)[1]
                       ELSE stem,
         cost |-> OrNum(OrNum(JGet(j, "cost"), JGet(j, "travel_cost")), JGet(j, "Cost")),
         time |-> OrNum(OrNum(JGet(j, "computation_time"), JGet(j, "time")),
                        JGet(j, "computationTime")),
         feasible |-> IF JGet(j, "feasible") = <<TRUE>> THEN 1 ELSE 0,
         iterations |-> IF JGet(j, "iterations") # None THEN JGet(j, "iterations")
                        ELSE <<"">>,
         cost_function |-> CostFunctionOf(p, j)]

RECURSIVE SumOf(_)
SumOf(s) == IF s = <<>> THEN 0 ELSE Head(s) + SumOf(Tail(s))

RECURSIVE Factorial(_)
Factorial(n) == IF n <= 1 THEN 1 ELSE n * Factorial(n - 1)

\* Means are kept exactly, as multiples of 1/MeanScale.
MeanScale == Factorial(MaxFiles)

RECURSIVE Present(_)
\* the values of a column that are not missing
Present(col) ==
    IF col = <<>> THEN <<>>
    ELSE (IF Head(col) = None THEN <<>> ELSE <<Head(col)[1]>>) \o Present(Tail(col))

\* mean() of a column, which skips missing values
Mean(col) ==
    IF Present(col) = <<>> THEN None
    ELSE <<(SumOf(Present(col)) * MeanScale) \div Len(Present(col))>>

Column(s, f(_)) == [k \in 1..Len(s) |-> f(s[k])]

\* Line 52: groupby('algorithm').agg(...), its groups in the order of their keys.
Statistics(rs) ==
    LET keys == Sorted(CHOOSE f \in Enumerations({r.algorithm : r \in Range(rs)}) : TRUE)
    IN  [k \in 1..Len(keys) |->
            LET IsOf(r) == r.algorithm = keys[k]
                Cost(r) == r.cost
                Time(r) == r.time
                Feasible(r) == r.feasible
                g == SelectSeq(rs, IsOf)
            IN  [algorithm |-> keys[k],
                 avg_cost |-> Mean(Column(g, Cost)),
                 avg_time |-> Mean(Column(g, Time)),
                 feasible |-> SumOf(Column(g, Feasible)),
                 total |-> Len(g)]]

(* The artifact stores. *)

Unparsable == [ok |-> FALSE, j |-> <<>>]

Json(j) == [ok |-> TRUE, j |-> j]

\* Removes the fields whose value is None from a record.
Fields(rec) == [k \in {f \in DOMAIN rec : rec[f] # None} |-> rec[k][1]]

\* One artifact whose cost and time are under any of their names.
AliasStores ==
    {[p \in {"results/n20_distance/n20mosA_nn_run0.json"} |->
        Json(Fields([cost |-> c, travel_cost |-> tc, Cost |-> cc,
                     computation_time |-> ct, time |-> t, computationTime |-> ctt,
                     cost_function |-> <<"distance">>]))] :
        c \in {None, <<0>>, <<5>>}, tc \in {None, <<7>>}, cc \in {None, <<0>>, <<9>>},
        ct \in {None, <<0>>, <<2>>}, t \in {None, <<3>>}, ctt \in {None, <<4>>}}

LabelPaths ==
    {"results/n20_distance/n20mosA_nn_run0.json",
     "results/n20_quadratic/n20mosA_nn_run0.json",
     "results/n20_quadratic/test.json",
     "results/single/test.json",
     "results/single/test_nn_quadratic.json",
     "results/single/test_nn_linear_load.json",
     "results/single/test_nn_linear-load.json",
     "results/single/n50mosA_nn_quadratic.json"}

\* One artifact with or without a cost-function field, at any of the paths.
LabelStores ==
    {[p \in {path} |->
        Json(Fields([cost |-> <<5>>, computation_time |-> <<1>>, cost_function |-> cf,
                     costFunction |-> cf2]))] :
        path \in LabelPaths, cf \in {None, <<"">>, <<"quadratic">>},
        cf2 \in {None, <<"linear-load">>}}

\* One artifact with or without an algorithm field, under a file name with or
\* without a '_'.
AlgorithmStores ==
    {[p \in {path} |->
        Json(Fields([algorithm |-> a, Algorithm |-> a2, cost |-> <<5>>,
                     computation_time |-> <<1>>, cost_function |-> <<"distance">>]))] :
        path \in {"results/n20_distance/n20mosA_nn_run0.json", "results/single/test.json",
                  "results/single/n20mosA.json"},
        a \in {None, <<"">>, <<"ga">>}, a2 \in {None, <<"GA2">>}}

\* What a solver process can have left in its --output file.
SolverOutputs ==
    {Unparsable,
     Json([algorithm |-> "nn", cost |-> 5, computation_time |-> 1, feasible |-> TRUE]),
     Json([algorithm |-> "nn", cost |-> 5, computation_time |-> 1, feasible |-> TRUE,
           cost_function |-> "distance"]),
     Json([cost |-> 10, computation_time |-> 2, feasible |-> FALSE,
           cost_function |-> "distance"]),
     Json([algorithm |-> "nn", cost |-> 10, computation_time |-> 4, feasible |-> TRUE,
           cost_function |-> "quadratic"])}

\* The batches whose stores are aggregated: one group, one cost function
\* (which --cost-modes may name more than once), one run.
Batches ==
    {a \in ArgSpace : /\ Len(a.groups) = 1
                      /\ Cardinality({Alias(m) : m \in Range(a.cost_modes)}) = 1
                      /\ a.runs = 1
                      /\ a.alpha = "0.1"
                      /\ ~a.build_gurobi
                      /\ ~a.include_exact}

\* What a solver process printed, which run() sends to the job's log: here the
\* text of its result.
SolverLog == Json([algorithm |-> "nn", cost |-> 5, computation_time |-> 1])

\* What run_benchmarks with command line a leaves under results/: the log of
\* every job, which run() opens, and the artifacts the solver processes wrote,
\* MaxFiles of them at most.
BatchStores(a) ==
    LET outs == {e.output : e \in Written(a)}
        logs == {e.log : e \in Written(a)}
    IN  UNION {{[p \in S \cup logs |-> IF p \in S THEN f[p] ELSE SolverLog] :
                    f \in [S -> SolverOutputs]} :
                S \in {T \in SUBSET outs : Cardinality(T) <= MaxFiles}}

InitAggregate ==
    /\ \/ batch = NoBatch /\ store \in AliasStores \cup LabelStores \cup AlgorithmStores
       \/ batch \in Batches /\ store \in BatchStores(batch)
    /\ agg_files = <<>>
    /\ agg_k = 0
    /\ rows = <<>>
    /\ stats = <<>>
    /\ agg_console = ""
    /\ agg_run = 1
    /\ agg_first = <<>>
    /\ agg_pc = "scan"
    /\ RunnerIdle
    /\ PfIdle
    /\ LpIdle
    /\ GapIdle
    /\ SensIdle
    /\ RepIdle
    /\ MiscIdle

\* Lines 12-13: the walk of results/ in whatever order the directories yield.
AggScan ==
    /\ agg_pc = "scan"
    /\ \E order \in Enumerations({p \in DOMAIN store : IsJson(p)}) :
           agg_files' = Scan(order)
    /\ agg_k' = 1
    /\ rows' = <<>>
    /\ agg_pc' = "loop"
    /\ UNCHANGED <<store, batch, stats, agg_console, agg_run, agg_first>>
    /\ UNCHANGED <<runner_vars, pareto_vars, load_vars, gap_vars, sens_vars, rep_vars, misc_vars>>

\* Lines 13-41: one turn of the loop.
AggRead ==
    /\ agg_pc = "loop"
    /\ agg_k <= Len(agg_files)
    /\ LET jf == agg_files[agg_k]
       IN  rows' = IF store[jf].ok THEN Append(rows, Row(jf, store[jf].j)) ELSE rows
    /\ agg_k' = agg_k + 1
    /\ UNCHANGED <<store, batch, agg_files, stats, agg_console, agg_run, agg_first, agg_pc>>
    /\ UNCHANGED <<runner_vars, pareto_vars, load_vars, gap_vars, sens_vars, rep_vars, misc_vars>>

\* Lines 43-57: results.csv, statistics.csv and the line printed.
AggWrite ==
    /\ agg_pc = "loop"
    /\ agg_k > Len(agg_files)
    /\ stats' = IF rows # <<>> THEN Statistics(rows) ELSE <<>>
    /\ agg_console' = IF rows # <<>>
                      THEN "Wrote aggregated results to /pd-tsp-solver/results/aggregated"
                      ELSE "No results found under /pd-tsp-solver/results"
    /\ agg_pc' = "written"
    /\ UNCHANGED <<store, batch, agg_files, agg_k, rows, agg_run, agg_first>>
    /\ UNCHANGED <<runner_vars, pareto_vars, load_vars, gap_vars, sens_vars, rep_vars, misc_vars>>

\* analyze_and_plot.py lines 234-245: the averaged points per algorithm are
\* handed to pareto_front.
AggPlot ==
    /\ agg_pc = "written"
    /\ df' = [k \in 1..Len(stats) |->
                 [time |-> stats[k].avg_time, cost |-> stats[k].avg_cost]]
    /\ orig_idxs' = <<>>
    /\ pf_i' = 0
    /\ pareto_idxs' = <<>>
    /\ pf' = <<>>
    /\ pf_pc' = "call"
    /\ agg_pc' = "plot"
    /\ UNCHANGED <<store, batch, agg_files, agg_k, rows, stats, agg_console, agg_run,
                   agg_first>>
    /\ UNCHANGED <<runner_vars, load_vars, gap_vars, sens_vars, rep_vars, misc_vars>>

\* The scripts are run a second time; nothing under results/ has changed.
AggAgain ==
    /\ agg_pc = "plot"
    /\ pf_pc = "done"
    /\ agg_run = 1
    /\ agg_first' = [rows |-> rows, stats |-> stats, pf |-> pf]
    /\ agg_run' = 2
    /\ agg_files' = <<>>
    /\ agg_k' = 0
    /\ rows' = <<>>
    /\ stats' = <<>>
    /\ agg_console' = ""
    /\ agg_pc' = "scan"
    /\ df' = <<>>
    /\ orig_idxs' = <<>>
    /\ pf_i' = 0
    /\ pareto_idxs' = <<>>
    /\ pf' = <<>>
    /\ pf_pc' = "idle"
    /\ UNCHANGED <<store, batch>>
    /\ UNCHANGED <<runner_vars, load_vars, gap_vars, sens_vars, rep_vars, misc_vars>>

AggEnd ==
    /\ agg_pc = "plot"
    /\ pf_pc = "done"
    /\ agg_run = 2
    /\ agg_pc' = "done"
    /\ UNCHANGED <<store, batch, agg_files, agg_k, rows, stats, agg_console, agg_run,
                   agg_first>>
    /\ UNCHANGED <<runner_vars, pareto_vars, load_vars, gap_vars, sens_vars, rep_vars, misc_vars>>

NextAggregate ==
    AggScan \/ AggRead \/ AggWrite \/ AggPlot \/ AggAgain \/ AggEnd \/ NextPareto

SpecAggregate == InitAggregate /\ [][NextAggregate]_vars

------------------------------------------------------------------------------
(* Properties of aggregate_results. *)

\* results.csv and statistics.csv have been written.
AggWritten == agg_pc \in {"written", "plot", "done"}

IsParsed(p) == store[p].ok

\* The artifacts that were read, in the order of the loop: the k-th row is the
\* row of the k-th of them.
Parsed == SelectSeq(agg_files, IsParsed)

Dropped == {p \in Range(agg_files) : ~store[p].ok}

RECURSIVE FirstPresent(_, _)
\* the value of the first of the fields names that j has
FirstPresent(j, names) ==
    IF names = <<>> THEN None
    ELSE IF Head(names) \in DOMAIN j THEN <<j[Head(names)]>>
    ELSE FirstPresent(j, Tail(names))

\* C11: the cost of a row is the value of the first of cost, travel_cost, Cost
\* that the artifact has, and its time the value of the first of
\* computation_time, time, computationTime that it has; a value of 0 is a value.
C11_FirstPresentAliasWins ==
    \A k \in 1..Len(rows) :
        LET j == store[Parsed[k]].j
        IN  /\ rows[k].cost = FirstPresent(j, <<"cost", "travel_cost", "Cost">>)
            /\ rows[k].time =
                   FirstPresent(j, <<"computation_time", "time", "computationTime">>)

\* C12: the cost-function label of a row is the artifact's cost_function (or
\* costFunction) field when it has one, else what the suffix of the file stem
\* says (_quadratic, _linear-load, _linear_load), else distance.
C12_LabelFromFieldThenSuffixThenDistance ==
    \A k \in 1..Len(rows) :
        LET j == store[Parsed[k]].j
            stem == JsonStem(Parsed[k])
            explicit == FirstPresent(j, <<"cost_function", "costFunction">>)
        IN  rows[k].cost_function =
                IF explicit # None THEN explicit[1]
                ELSE IF EndsWith(stem, "_quadratic") THEN "quadratic"
                ELSE IF EndsWith(stem, "_linear-load") \/ EndsWith(stem, "_linear_load")
                     THEN "linear-load"
                ELSE "distance"

\* the first of the fields names that j has with a non-empty text
RECURSIVE FirstNonEmpty(_, _)
FirstNonEmpty(j, names) ==
    IF names = <<>> THEN None
    ELSE IF Head(names) \in DOMAIN j /\ j[Head(names)] # "" THEN <<j[Head(names)]>>
    ELSE FirstNonEmpty(j, Tail(names))

\* C27: the algorithm of a row is the artifact's algorithm field when it is
\* present and not empty, else its Algorithm field, else the second piece of
\* the file stem split at '_'; the file stem itself only when there is none of
\* these.
C27_AlgorithmFromFieldThenStem ==
    \A k \in 1..Len(rows) :
        LET j == store[Parsed[k]].j
            stem == JsonStem(Parsed[k])
            field == FirstNonEmpty(j, <<"algorithm", "Algorithm">>)
        IN  rows[k].algorithm =
                IF field # None THEN field[1]
                ELSE IF Contains(stem, "_") THEN Split(stem, "_")[2]
                ELSE stem

\* C28: an artifact a job of the batch wrote without a cost-function field gets
\* the cost function of the job's results directory <group>_<mode>, which is
\* distance, quadratic or linear-load.
C28_LabelOfTheJobsDirectory ==
    (batch # NoBatch) =>
        \A k \in 1..Len(rows) :
            LET j == store[Parsed[k]].j IN
            ({"cost_function", "costFunction"} \cap DOMAIN j = {}) =>
                /\ rows[k].cost_function \in {"distance", "quadratic", "linear-load"}
                /\ \E e \in Written(batch) :
                       /\ e.output = Parsed[k]
                       /\ rows[k].cost_function = e.id.cost_function

GroupKey(r) == <<r.algorithm, r.instance, r.cost_function>>

\* C13: statistics.csv has one row per (algorithm, instance, cost function) that
\* occurs among the result rows, and the count of a row is the number of result
\* rows of one such key.
C13_StatisticsPerAlgorithmInstanceCostFunction ==
    AggWritten =>
        /\ Len(stats) = Cardinality({GroupKey(r) : r \in Range(rows)})
        /\ \A k \in 1..Len(stats) :
               \E key \in {GroupKey(r) : r \in Range(rows)} :
                   /\ key[1] = stats[k].algorithm
                   /\ stats[k].total =
                          Cardinality({h \in 1..Len(rows) : GroupKey(rows[h]) = key})

\* the decimal text of n occurs in line
Mentions(line, n) ==
    \E h \in 1..Len(line) : \E k \in h..Len(line) : SubSeq(line, h, k) = Str(n)

\* C18: an artifact that cannot be read, or that has no cost under any name,
\* yields no row, and the number of artifacts dropped is in what the script
\* prints.
C18_DroppedArtifactsAreReported ==
    /\ \A k \in 1..Len(rows) : rows[k].cost # None
    /\ (AggWritten /\ Dropped # {}) => Mentions(agg_console, Cardinality(Dropped))

C20_SecondRunRepeatsTheFirst ==
    (agg_run = 2 /\ agg_pc = "done") =>
        /\ rows = agg_first.rows
        /\ stats = agg_first.stats
        /\ pf = agg_first.pf

C20_Witness ==
    /\ agg_run = 2
    /\ agg_pc = "done"
    /\ Len(rows) = 2
    /\ Len(stats) = 2
    /\ Len(pf) = 1

------------------------------------------------------------------------------
(* analyze_results.py: plot_exact_vs_best_heuristic *)

MaxGapRows == 3

GapInstances == {"n20mosA", "n20mosB"}

GapCostFunctions == {"distance", "quadratic"}

\* exact_solver_all_costs.csv: a Cost cell can be empty.
ExactRows ==
    [Instance : GapInstances, CostFunction : GapCostFunctions,
     Cost : {NaN, <<0>>, <<100>>}]

\* The heuristic CSVs: a MinCost cell can be empty.
HeuristicRows ==
    [Instance : GapInstances, CostFunction : GapCostFunctions,
     MinCost : {NaN, <<115>>, <<130>>}]

InitGap ==
    /\ \E ne \in 0..MaxGapRows : \E nh \in 0..(MaxGapRows - ne) :
           /\ exact_df \in [1..ne -> ExactRows]
           /\ heuristic_df \in [1..nh -> HeuristicRows]
    /\ cost_funcs = <<>>
    /\ gap_idx = 0
    /\ gaps = <<>>
    /\ gap_pc = "call"
    /\ RunnerIdle
    /\ PfIdle
    /\ LpIdle
    /\ AggIdle
    /\ SensIdle
    /\ RepIdle
    /\ MiscIdle

RECURSIVE Unique(_)
\* Series.unique(): the values in the order of their first appearance
Unique(s) ==
    IF s = <<>> THEN <<>>
    ELSE LET u == Unique(SubSeq(s, 1, Len(s) - 1))
         IN  IF Last(s) \in Range(u) THEN u ELSE Append(u, Last(s))

\* Line 138 with the first heuristic row in place of the minimum.
BestHeuristicIsFirst(col) == col[1]

\* Line 138: Series.min(), which skips empty cells
BestHeuristic(col) == IF Present(col) = <<>> THEN NaN ELSE <<MinOf(Present(col))>>

\* Line 141: the gap in percent, for costs that divide evenly
Gap(heuristic_cost, exact_cost) == ((heuristic_cost - exact_cost) * 100) \div exact_cost

RECURSIVE GapLoop(_, _, _)
\* Lines 134-145: the loop over the common instances left, from the lists so far
GapLoop(insts, cost_func, acc) ==
    IF insts = <<>> THEN acc
    ELSE LET inst == Head(insts)
             IsExact(r) == r.CostFunction = cost_func /\ r.Instance = inst
             IsHeur(r) == r.CostFunction = cost_func /\ r.Instance = inst
             MinCostOf(r) == r.MinCost
             exact_cost == SelectSeq(exact_df, IsExact)[1].Cost
             heuristic_cost ==
                 BestHeuristic(Column(SelectSeq(heuristic_df, IsHeur), MinCostOf))
             next == IF exact_cost # NaN /\ heuristic_cost # NaN /\ exact_cost[1] > 0
                     THEN [acc EXCEPT
                             !.gaps = Append(@, Gap(heuristic_cost[1], exact_cost[1])),
                             !.instances = Append(@, inst),
                             !.exact_costs = Append(@, exact_cost[1]),
                             !.heuristic_costs = Append(@, heuristic_cost[1])]
                     ELSE acc
         IN  GapLoop(Tail(insts), cost_func, next)

\* Lines 109-115
GapCall ==
    /\ gap_pc = "call"
    /\ IF exact_df = <<>> \/ heuristic_df = <<>>
       THEN /\ gap_pc' = "done"
            /\ UNCHANGED <<cost_funcs, gap_idx>>
       ELSE /\ cost_funcs' = Unique([k \in 1..Len(exact_df) |-> exact_df[k].CostFunction])
            /\ gap_idx' = 1
            /\ gap_pc' = "loop"
    /\ UNCHANGED <<exact_df, heuristic_df, gaps>>
    /\ UNCHANGED <<runner_vars, pareto_vars, load_vars, agg_vars, sens_vars, rep_vars, misc_vars>>

\* Lines 117-159: the panel of one cost function.
GapPanel ==
    /\ gap_pc = "loop"
    /\ gap_idx <= Len(cost_funcs)
    /\ LET cost_func == cost_funcs[gap_idx]
           common_instances ==
               {r.Instance : r \in {e \in Range(exact_df) : e.CostFunction = cost_func}}
               \cap
               {r.Instance : r \in {h \in Range(heuristic_df) : h.CostFunction = cost_func}}
       IN  gaps' = IF common_instances = {} THEN gaps
                   ELSE Append(gaps,
                            GapLoop(Sorted(CHOOSE f \in Enumerations(common_instances) : TRUE),
                                    cost_func,
                                    [cost_func |-> cost_func, gaps |-> <<>>,
                                     instances |-> <<>>, exact_costs |-> <<>>,
                                     heuristic_costs |-> <<>>]))
    /\ gap_idx' = gap_idx + 1
    /\ UNCHANGED <<exact_df, heuristic_df, cost_funcs, gap_pc>>
    /\ UNCHANGED <<runner_vars, pareto_vars, load_vars, agg_vars, sens_vars, rep_vars, misc_vars>>

\* Lines 161-165: the figure is saved.
GapSave ==
    /\ gap_pc = "loop"
    /\ gap_idx > Len(cost_funcs)
    /\ gap_pc' = "done"
    /\ UNCHANGED <<exact_df, heuristic_df, cost_funcs, gap_idx, gaps>>
    /\ UNCHANGED <<runner_vars, pareto_vars, load_vars, agg_vars, sens_vars, rep_vars, misc_vars>>

NextGap == GapCall \/ GapPanel \/ GapSave

SpecGap == InitGap /\ [][NextGap]_vars

------------------------------------------------------------------------------
(* Properties of plot_exact_vs_best_heuristic. *)

\* The gaps produced: (cost function, instance, gap), one per bar pair.
GapEntries ==
    UNION {{<<gaps[p].cost_func, gaps[p].instances[k], gaps[p].gaps[k], p, k>> :
               k \in 1..Len(gaps[p].gaps)} : p \in 1..Len(gaps)}

\* C14: for each instance and cost function with an exact result, the gap is
\* (best heuristic cost - exact cost) / exact cost x 100 with the minimum MinCost
\* of the heuristic rows of that instance and cost function; it exists only when
\* the exact cost is positive and both costs are present, and no gap is produced
\* otherwise.
C14_GapToExact ==
    gap_pc = "done" =>
        \A cf \in GapCostFunctions : \A inst \in GapInstances :
            LET ex == {k \in 1..Len(exact_df) :
                          exact_df[k].CostFunction = cf /\ exact_df[k].Instance = inst}
                hs == {h.MinCost[1] : h \in {r \in Range(heuristic_df) :
                          r.CostFunction = cf /\ r.Instance = inst /\ r.MinCost # NaN}}
                e == exact_df[CHOOSE k \in ex : \A h \in ex : k <= h].Cost
                found == {g \in GapEntries : g[1] = cf /\ g[2] = inst}
            IN  IF ex # {} /\ hs # {} /\ e # NaN /\ e[1] > 0
                THEN \E g \in found :
                        /\ found = {g}
                        /\ \E best \in hs :
                              /\ \A h \in hs : best <= h
                              /\ g[3] * e[1] = (best - e[1]) * 100
                ELSE found = {}

C14_Witness ==
    /\ gap_pc = "done"
    /\ Len(heuristic_df) = 2
    /\ heuristic_df[1].MinCost = <<130>>
    /\ \E g \in GapEntries : g[3] = 15

------------------------------------------------------------------------------
(* scripts/aggregate_quadratic_results.py *)

MaxAlphas == 2

\* results/quadratic_sensitivity/alpha_<value>, as run_quadratic_sensitivity
\* names them.
AlphaDirs == {"alpha_0." \o Str(k) : k \in 0..(MaxAlphas - 1)}

DigitVal(c) == CHOOSE k \in 0..9 : Digits[k + 1] = c

\* Line 17: float() of the text after 'alpha_', a value d.d, in tenths
AlphaOf(name) ==
    LET text == SubSeq(name, 7, Len(name))
    IN  DigitVal(SubSeq(text, 1, 1)) * 10 + DigitVal(SubSeq(text, 3, 3))

Objectives == {NaN, <<42>>, <<45>>, <<48>>, <<50>>}

\* The artifacts of one alpha directory: algorithm A's carries its name, B's
\* does not.
SensFiles(dir) ==
    LET a == "n100mosA_A_alpha" \o SubSeq(dir, 7, Len(dir)) \o ".json"
        b == "n100mosA_B_alpha" \o SubSeq(dir, 7, Len(dir)) \o ".json"
    IN  UNION {{[p \in S |-> IF p = a
                            THEN Fields([algorithm |-> <<"A">>, objective |-> f[p]])
                            ELSE Fields([objective |-> f[p]])] :
                   f \in [S -> Objectives]} : S \in SUBSET {a, b}}

InitSens ==
    /\ \E D \in SUBSET AlphaDirs :
           sens_store \in {s \in [D -> UNION {SensFiles(dir) : dir \in D}] :
                              \A dir \in D : s[dir] \in SensFiles(dir)}
    /\ sens_rows = <<>>
    /\ best_per_alpha = <<>>
    /\ sens_pc = "read"
    /\ RunnerIdle
    /\ PfIdle
    /\ LpIdle
    /\ AggIdle
    /\ GapIdle
    /\ RepIdle
    /\ MiscIdle

\* Lines 25-34: the row of one artifact.
SensRow(alpha, name, data) ==
    LET stem == SubSeq(name, 1, Len(name) - 5)
    IN  [alpha |-> alpha,
         algorithm |-> IF "algorithm" \in DOMAIN data THEN data["algorithm"]
                       ELSE IF Contains(stem, "_") THEN Split(stem, "_")[2]
                       ELSE "unknown",
         cost |-> JGet(data, "cost"),
         profit |-> JGet(data, "total_profit"),
         objective |-> JGet(data, "objective"),
         feasible |-> JGet(data, "feasible"),
         time |-> JGet(data, "computation_time")]

RECURSIVE SensRowsOf(_, _)
\* Lines 16-34: the rows of the directories dirs, the files of each in the order
\* order[dir] in which glob yields them
SensRowsOf(dirs, order) ==
    IF dirs = <<>> THEN <<>>
    ELSE LET dir == Head(dirs)
         IN  [k \in 1..Len(order[dir]) |->
                 SensRow(AlphaOf(dir), order[dir][k], sens_store[dir][order[dir][k]])]
             \o SensRowsOf(Tail(dirs), order)

\* Line 57: Series.idxmax(), the first position of the maximum, empty cells
\* skipped
IdxMax(col) ==
    CHOOSE k \in 1..Len(col) :
        /\ col[k] # NaN
        /\ \A h \in 1..Len(col) : col[h] # NaN => col[h][1] <= col[k][1]
        /\ \A h \in 1..(k - 1) : col[h] = NaN \/ col[h][1] < col[k][1]

\* Lines 15-38
SensRead ==
    /\ sens_pc = "read"
    /\ \E order \in [DOMAIN sens_store ->
                        UNION {Enumerations(DOMAIN sens_store[dir]) : dir \in DOMAIN sens_store}] :
           /\ \A dir \in DOMAIN sens_store : order[dir] \in Enumerations(DOMAIN sens_store[dir])
           /\ sens_rows' = SensRowsOf(Sorted(CHOOSE f \in Enumerations(DOMAIN sens_store) : TRUE),
                                      order)
    /\ sens_pc' = IF sens_rows' = <<>> THEN "exit" ELSE "best"
    /\ UNCHANGED <<sens_store, best_per_alpha>>
    /\ UNCHANGED <<runner_vars, pareto_vars, load_vars, agg_vars, gap_vars, rep_vars, misc_vars>>

RECURSIVE Ascending(_)
\* The alphas of the rows, ascending: the groups of groupby('alpha').
Ascending(S) ==
    IF S = {} THEN <<>>
    ELSE LET lo == CHOOSE x \in S : \A y \in S : x <= y
         IN  <<lo>> \o Ascending(S \ {lo})

\* Lines 56-61: the row of the largest objective of every alpha; idxmax() of a
\* group without any objective raises.
SensBest ==
    /\ sens_pc = "best"
    /\ LET alphas == Ascending({r.alpha : r \in Range(sens_rows)})
           Group(al) == LET IsOf(r) == r.alpha = al IN SelectSeq(sens_rows, IsOf)
           ObjectiveOf(r) == r.objective
           Empty(al) == \A r \in Range(Group(al)) : r.objective = NaN
       IN  IF \E k \in 1..Len(alphas) : Empty(alphas[k])
           THEN /\ sens_pc' = "error"
                /\ UNCHANGED best_per_alpha
           ELSE /\ best_per_alpha' =
                       [k \in 1..Len(alphas) |->
                           Group(alphas[k])[IdxMax(Column(Group(alphas[k]), ObjectiveOf))]]
                /\ sens_pc' = "done"
    /\ UNCHANGED <<sens_store, sens_rows>>
    /\ UNCHANGED <<runner_vars, pareto_vars, load_vars, agg_vars, gap_vars, rep_vars, misc_vars>>

NextSens == SensRead \/ SensBest

SpecSens == InitSens /\ [][NextSens]_vars

------------------------------------------------------------------------------
(* Properties of the sensitivity summary. *)

\* C15: for every alpha of the rows, best-per-alpha has a row of the largest
\* objective of that alpha, and of the algorithms that reach it the one with
\* the smallest name, whatever the order in which the files were read.
C15_BestPerAlphaSmallestNameOnTies ==
    sens_pc = "done" =>
        /\ Len(best_per_alpha) = Cardinality({r.alpha : r \in Range(sens_rows)})
        /\ \A k \in 1..Len(best_per_alpha) :
               LET b == best_per_alpha[k]
                   group == {r \in Range(sens_rows) : r.alpha = b.alpha /\ r.objective # NaN}
               IN  /\ b \in group
                   /\ \A r \in group : r.objective[1] <= b.objective[1]
                   /\ \A r \in group :
                          r.objective = b.objective => ~StrLt(r.algorithm, b.algorithm)
                   /\ \A h \in 1..Len(best_per_alpha) : best_per_alpha[h].alpha = b.alpha => h = k

------------------------------------------------------------------------------
(* report/analyze_and_plot.py: the n100 tables and compute_linear_vs_quadratic *)

MaxCsvRows == 2

Upper == "ABCDEFGHIJKLMNOPQRSTUVWXYZ"

LowerChars == "abcdefghijklmnopqrstuvwxyz"

RECURSIVE Lower(_)
\* str.lower()
Lower(s) ==
    IF s = "" THEN ""
    ELSE LET c == SubSeq(s, 1, 1)
             up == {k \in 1..Len(Upper) : SubSeq(Upper, k, k) = c}
         IN  (IF up = {} THEN c
              ELSE LET k == CHOOSE h \in up : TRUE IN SubSeq(LowerChars, k, k))
             \o Lower(Tail(s))

\* sub in s
HasSub(s, sub) ==
    \E k \in 1..(Len(s) - Len(sub) + 1) : SubSeq(s, k, k + Len(sub) - 1) = sub

\* Lines 36-55, with the long label 'MaxMin-ACO' for the MMAS family.
normalize_algoLongLabels(name) ==
    LET s == Lower(name)
    IN  IF HasSub(s, "exact") \/ HasSub(s, "gurobi") THEN "Exact"
        ELSE IF HasSub(s, "memetic") THEN "Memetic"
        ELSE IF HasSub(s, "genetic") \/ s = "ga" \/ (HasSub(s, "ga") /\ ~HasSub(s, "m"))
             THEN "GA"
        ELSE IF HasSub(s, "mmas") THEN "MaxMin-ACO"
        ELSE IF HasSub(s, "aco") /\ ~HasSub(s, "mmas") THEN "ACO"
        ELSE IF HasSub(s, "hybrid") THEN "Hybrid"
        ELSE IF s \in {"nn", "nnheuristic", "nearestneighbor"} THEN "NN"
        ELSE name

\* Lines 36-55, for a name that is not missing
normalize_algo(name) ==
    LET s == Lower(name)
    IN  IF HasSub(s, "exact") \/ HasSub(s, "gurobi") THEN "Exact"
        ELSE IF HasSub(s, "memetic") THEN "Memetic"
        ELSE IF HasSub(s, "genetic") \/ s = "ga" \/ (HasSub(s, "ga") /\ ~HasSub(s, "m"))
             THEN "GA"
        ELSE IF HasSub(s, "mmas") THEN "MMAS"
        ELSE IF HasSub(s, "aco") /\ ~HasSub(s, "mmas") THEN "ACO"
        ELSE IF HasSub(s, "hybrid") THEN "Hybrid"
        ELSE IF s \in {"nn", "nnheuristic", "nearestneighbor"} THEN "NN"
        ELSE name

\* The texts pandas.read_csv reads as a missing value (those of the tables).
NaStrings == {"", "N/A", "NA", "nan", "NaN"}

RECURSIVE ParseInt(_)
\* the number a text of digits denotes
ParseInt(text) ==
    IF Len(text) = 1 THEN DigitVal(text)
    ELSE ParseInt(SubSeq(text, 1, Len(text) - 1)) * 10 + DigitVal(SubSeq(text, Len(text), Len(text)))

\* Line 24: read_csv of one row; a cost cell is a number or missing, a feasible
\* cell True, False or missing.
ReadRow(r) ==
    [algorithm |-> r.algorithm,
     cost |-> IF r.cost \in NaStrings THEN NaN ELSE <<ParseInt(r.cost)>>,
     feasible |-> IF r.feasible \in NaStrings THEN NaN ELSE <<r.feasible>>,
     cost_function |-> r.cost_function]

\* Lines 22-27
safe_read(file) ==
    IF file.exists THEN [ok |-> TRUE, rows |-> [k \in 1..Len(file.rows) |-> ReadRow(file.rows[k])]]
    ELSE [ok |-> FALSE, rows |-> <<>>]

\* df['cost'] != text, for a cell that is a number or missing
NotEqualText(cell, text) == cell = NaN \/ Str(cell[1]) # text

\* Line 73: astype(str).str.lower().map({'true': 1, 'false': 0})
FeasibleFlag(cell) ==
    LET s == Lower(IF cell = NaN THEN "nan" ELSE cell[1])
    IN  IF s = "true" THEN <<1>> ELSE IF s = "false" THEN <<0>> ELSE NaN

\* mean() of a column, as the fraction <<sum, count>> of its present values
MeanFraction(col) ==
    IF Present(col) = <<>> THEN NaN ELSE <<SumOf(Present(col)), Len(Present(col))>>

\* The keys of groupby('algorithm'), in order.
AlgorithmKeys(rs) == Sorted(CHOOSE f \in Enumerations({r.algorithm : r \in Range(rs)}) : TRUE)

Normalized(rs) == [k \in 1..Len(rs) |-> [rs[k] EXCEPT !.algorithm = normalize_algo(@)]]

\* Lines 59-62: mean, min and count of the cost per algorithm (std is left out).
CostStats(rs) ==
    LET NotNA(r) == NotEqualText(r.cost, "N/A")
        agg == Normalized(SelectSeq(rs, NotNA))
        keys == AlgorithmKeys(agg)
    IN  [k \in 1..Len(keys) |->
            LET IsOf(r) == r.algorithm = keys[k]
                Cost(r) == r.cost
                col == Column(SelectSeq(agg, IsOf), Cost)
            IN  [algorithm |-> keys[k],
                 mean |-> MeanFraction(col),
                 min |-> IF Present(col) = <<>> THEN NaN ELSE <<MinOf(Present(col))>>,
                 count |-> Len(Present(col))]]

\* Line 75: the mean of feasible_flag per algorithm
FeasibilityRate(rs) ==
    LET keys == AlgorithmKeys(rs)
    IN  [k \in 1..Len(keys) |->
            LET IsOf(r) == r.algorithm = keys[k]
                Flag(r) == FeasibleFlag(r.feasible)
            IN  [algorithm |-> keys[k],
                 feasible_flag |-> MeanFraction(Column(SelectSeq(rs, IsOf), Flag))]]

\* Lines 146-156: the mean cost per algorithm of the rows of one regime
RegimeMeans(rs, labels) ==
    LET NotNA(r) == NotEqualText(r.cost, "N/A")
        InRegime(r) == \E l \in labels : HasSub(r.cost_function, l)
        sel == SelectSeq(Normalized(SelectSeq(rs, NotNA)), InRegime)
        keys == AlgorithmKeys(sel)
    IN  [k \in 1..Len(keys) |->
            LET IsOf(r) == r.algorithm = keys[k]
                Cost(r) == r.cost
            IN  [algorithm |-> keys[k],
                 cost |-> MeanFraction(Column(SelectSeq(sel, IsOf), Cost))]]

\* Line 159: (cost_quadratic - cost_linear) / cost_linear * 100 of two means, as
\* a fraction <<numerator, denominator>> with a positive denominator
PctDelta(lin, qd) ==
    IF lin = NaN \/ qd = NaN THEN NaN
    ELSE <<(qd[1] * lin[2] - lin[1] * qd[2]) * 100, lin[1] * qd[2]>>

\* a sorts before b in sort_values('pct_delta', ascending=False): missing last
DeltaBefore(a, b) ==
    /\ a # NaN
    /\ b = NaN \/ a[1] * b[2] > b[1] * a[2]

RECURSIVE InsertByDelta(_, _)
InsertByDelta(x, s) ==
    IF s = <<>> THEN <<x>>
    ELSE IF DeltaBefore(s[1].pct_delta, x.pct_delta)
              \/ ~DeltaBefore(x.pct_delta, s[1].pct_delta)
         THEN <<Head(s)>> \o InsertByDelta(x, Tail(s))
    ELSE <<x>> \o s

RECURSIVE SortByDelta(_)
\* Line 160
SortByDelta(s) ==
    IF s = <<>> THEN <<>>
    ELSE InsertByDelta(Last(s), SortByDelta(SubSeq(s, 1, Len(s) - 1)))

\* Lines 141-160
compute_linear_vs_quadratic(df_linear, df_quad) ==
    IF ~df_linear.ok \/ ~df_quad.ok THEN [ok |-> FALSE, rows |-> <<>>]
    ELSE LET lin_mean == RegimeMeans(df_linear.rows, {"linear", "distance"})
             qd_mean == RegimeMeans(df_quad.rows, {"quadratic"})
             InQuad(l) == \E q \in Range(qd_mean) : q.algorithm = l.algorithm
             left == SelectSeq(lin_mean, InQuad)
             merged_rows ==
                 [k \in 1..Len(left) |->
                     LET q == CHOOSE x \in Range(qd_mean) : x.algorithm = left[k].algorithm
                     IN  [algorithm |-> left[k].algorithm,
                          cost_linear |-> left[k].cost,
                          cost_quadratic |-> q.cost,
                          pct_delta |-> PctDelta(left[k].cost, q.cost)]]
         IN  [ok |-> TRUE, rows |-> SortByDelta(merged_rows)]

(* The tables. *)

RepAlgorithms == {"nn", "NearestNeighbor", "ga"}

\* results.csv of the n100 benchmark, for the tables per algorithm.
TableRows ==
    [algorithm : {"nn", "NearestNeighbor"}, cost : {"N/A", "10", "30"},
     feasible : {"True", "False", "N/A"}, cost_function : {"linear-load"}]

\* results.csv and results_quadratic.csv of the n100 benchmark, for the deltas.
LinearRows ==
    [algorithm : RepAlgorithms, cost : {"N/A", "10", "20"}, feasible : {"True"},
     cost_function : {"linear-load", "quadratic"}]

QuadraticRows ==
    [algorithm : RepAlgorithms, cost : {"N/A", "30"}, feasible : {"True"},
     cost_function : {"quadratic"}]

CsvFile(rs) == [exists |-> TRUE, rows |-> rs]

NoFile == [exists |-> FALSE, rows |-> <<>>]

InitRep ==
    /\ \/ /\ df_n100 \in {CsvFile(rs) : rs \in SeqsUpTo(TableRows, MaxCsvRows)}
          /\ df_n100_quad = NoFile
       \/ /\ df_n100 \in {CsvFile(rs) : rs \in SeqsUpTo(LinearRows, MaxCsvRows)}
          /\ df_n100_quad \in {CsvFile(rs) : rs \in {<<>>} \cup SeqsUpTo(QuadraticRows, MaxCsvRows)}
          /\ Len(df_n100.rows) + Len(df_n100_quad.rows) <= MaxCsvRows
       \/ /\ df_n100 = NoFile
          /\ df_n100_quad \in {CsvFile(rs) : rs \in SeqsUpTo(QuadraticRows, 1)}
    /\ cost_stats = <<>>
    /\ feas = <<>>
    /\ merged = <<>>
    /\ rep_pc = "read"
    /\ RunnerIdle
    /\ PfIdle
    /\ LpIdle
    /\ AggIdle
    /\ GapIdle
    /\ SensIdle
    /\ MiscIdle

\* Lines 29-34
RepRead ==
    /\ rep_pc = "read"
    /\ df_n100' = safe_read(df_n100)
    /\ df_n100_quad' = safe_read(df_n100_quad)
    /\ rep_pc' = "cost"
    /\ UNCHANGED <<cost_stats, feas, merged>>
    /\ UNCHANGED <<runner_vars, pareto_vars, load_vars, agg_vars, gap_vars, sens_vars, misc_vars>>

\* Lines 58-69
RepCost ==
    /\ rep_pc = "cost"
    /\ cost_stats' = IF df_n100.ok THEN CostStats(df_n100.rows) ELSE cost_stats
    /\ rep_pc' = "feas"
    /\ UNCHANGED <<df_n100, df_n100_quad, feas, merged>>
    /\ UNCHANGED <<runner_vars, pareto_vars, load_vars, agg_vars, gap_vars, sens_vars, misc_vars>>

\* Lines 72-82: the algorithm column of df_n100 is normalized in place.
RepFeas ==
    /\ rep_pc = "feas"
    /\ IF df_n100.ok
       THEN /\ df_n100' = [df_n100 EXCEPT !.rows = Normalized(@)]
            /\ feas' = FeasibilityRate(Normalized(df_n100.rows))
       ELSE UNCHANGED <<df_n100, feas>>
    /\ rep_pc' = "delta"
    /\ UNCHANGED <<df_n100_quad, cost_stats, merged>>
    /\ UNCHANGED <<runner_vars, pareto_vars, load_vars, agg_vars, gap_vars, sens_vars, misc_vars>>

\* Line 162
RepDelta ==
    /\ rep_pc = "delta"
    /\ merged' = compute_linear_vs_quadratic(df_n100, df_n100_quad)
    /\ rep_pc' = "done"
    /\ UNCHANGED <<df_n100, df_n100_quad, cost_stats, feas>>
    /\ UNCHANGED <<runner_vars, pareto_vars, load_vars, agg_vars, gap_vars, sens_vars, misc_vars>>

NextRep == RepRead \/ RepCost \/ RepFeas \/ RepDelta

SpecRep == InitRep /\ [][NextRep]_vars

------------------------------------------------------------------------------
(* Properties of the n100 tables. *)

\* the fractions a and b, each missing or <<numerator, denominator>>, are equal
SameFraction(a, b) ==
    IF a = NaN \/ b = NaN THEN a = b ELSE a[1] * b[2] = b[1] * a[2]

\* The costs that are numbers, of the rows of algorithm a (canonical name) whose
\* cost function has one of the labels, by row.
UsableCosts(rs, a, labels) ==
    LET IsUsable(r) == /\ normalize_algo(r.algorithm) = a
                       /\ r.cost # NaN
                       /\ \E l \in labels : HasSub(r.cost_function, l)
        Cost(r) == r.cost[1]
    IN  Column(SelectSeq(rs, IsUsable), Cost)

CanonicalNames == {normalize_algo(a) : a \in RepAlgorithms}

\* C16: compute_linear_vs_quadratic has one row per canonical algorithm with a
\* usable cost under both regimes, its pct_delta being (mean quadratic cost -
\* mean linear cost) / mean linear cost x 100, and no row for any other
\* algorithm.
C16_DeltaOnlyForAlgorithmsOfBothRegimes ==
    (rep_pc = "done" /\ merged.ok) =>
        \A a \in CanonicalNames :
            LET lin == UsableCosts(df_n100.rows, a, {"linear", "distance"})
                qd == UsableCosts(df_n100_quad.rows, a, {"quadratic"})
                found == {k \in 1..Len(merged.rows) : merged.rows[k].algorithm = a}
            IN  IF lin # <<>> /\ qd # <<>>
                THEN \E k \in found :
                        /\ found = {k}
                        /\ SameFraction(merged.rows[k].pct_delta,
                               PctDelta(<<SumOf(lin), Len(lin)>>, <<SumOf(qd), Len(qd)>>))
                ELSE found = {}

\* C17: a row whose cost is 'N/A' takes no part in the mean, min and count of
\* the cost of its algorithm, and counts as an infeasible row in the feasibility
\* rate of its algorithm.
C17_NotAvailableCostCountsAsInfeasible ==
    (rep_pc \in {"delta", "done"} /\ df_n100.ok) =>
        /\ \A k \in 1..Len(cost_stats) :
               LET costs == UsableCosts(df_n100.rows, cost_stats[k].algorithm, {""})
               IN  /\ cost_stats[k].count = Len(costs)
                   /\ costs # <<>> =>
                          /\ SameFraction(cost_stats[k].mean, <<SumOf(costs), Len(costs)>>)
                          /\ cost_stats[k].min = <<MinOf(costs)>>
        /\ \A k \in 1..Len(feas) :
               LET IsOf(r) == r.algorithm = feas[k].algorithm
                   Flag(r) == IF r.cost = NaN THEN <<0>> ELSE FeasibleFlag(r.feasible)
               IN  SameFraction(feas[k].feasible_flag,
                                MeanFraction(Column(SelectSeq(df_n100.rows, IsOf), Flag)))

------------------------------------------------------------------------------
(* report/analyze_and_plot.py: normalize_algo on the algorithm column, which *)
(* line 74 rewrites in place and line 226 normalizes again on a copy.        *)

MaxParts == 2

\* The pieces algorithm names are made of.
NameParts ==
    {"Exact", "gurobi", "Memetic", "Genetic", "GA", "m", "MMAS", "ACO", "Hybrid",
     "NN", "nnheuristic", "NearestNeighbor", "SA", "-run0"}

RECURSIVE Join(_)
\* ''.join(parts)
Join(parts) == IF parts = <<>> THEN "" ELSE Head(parts) \o Join(Tail(parts))

AlgorithmNames == {Join(ps) : ps \in SeqsUpTo(NameParts, MaxParts)}

\* A cell of the algorithm column: missing, or a text.
Cell(text) == [na |-> FALSE, text |-> text]

\* Lines 36-55 on a cell: a missing name is returned as it is (lines 37-38).
NormalizeCell(c) == IF c.na THEN c ELSE Cell(normalize_algo(c.text))

InitNorm ==
    /\ alg_cell \in {NoCell} \cup {Cell(n) : n \in AlgorithmNames}
    /\ alg_feas = NoCell
    /\ alg_combined = NoCell
    /\ norm_pc = "feas"
    /\ RunnerIdle
    /\ PfIdle
    /\ LpIdle
    /\ AggIdle
    /\ GapIdle
    /\ SensIdle
    /\ RepIdle
    /\ BenchIdle
    /\ LogIdle
    /\ PlotIdle

\* Line 74: df_n100['algorithm'] = df_n100['algorithm'].apply(normalize_algo)
NormFeas ==
    /\ norm_pc = "feas"
    /\ alg_feas' = NormalizeCell(alg_cell)
    /\ norm_pc' = "combined"
    /\ UNCHANGED <<alg_cell, alg_combined>>
    /\ UNCHANGED <<runner_vars, pareto_vars, load_vars, agg_vars, gap_vars, sens_vars,
                   rep_vars, bench_vars, log_vars, plot_vars>>

\* Lines 217-226: combined is a copy of the rewritten df_n100, normalized again.
NormCombined ==
    /\ norm_pc = "combined"
    /\ alg_combined' = NormalizeCell(alg_feas)
    /\ norm_pc' = "done"
    /\ UNCHANGED <<alg_cell, alg_feas>>
    /\ UNCHANGED <<runner_vars, pareto_vars, load_vars, agg_vars, gap_vars, sens_vars,
                   rep_vars, bench_vars, log_vars, plot_vars>>

NextNorm == NormFeas \/ NormCombined

SpecNorm == InitNorm /\ [][NextNorm]_vars

\* C21: normalize_algo is idempotent: normalizing the normalized name of any
\* cell, missing ones included, returns it unchanged.
C21_NormalizeIsIdempotent ==
    /\ (norm_pc = "done") => (alg_combined = alg_feas)
    /\ (norm_pc # "feas" /\ ~alg_cell.na) =>
           normalize_algo(normalize_algo(alg_cell.text)) = normalize_algo(alg_cell.text)

C21_Witness ==
    /\ norm_pc = "done"
    /\ alg_cell = Cell("Genetic-run0")
    /\ alg_feas = Cell("GA")
    /\ alg_combined = Cell("GA")

------------------------------------------------------------------------------
(* analyze_benchmark.py: the category of an algorithm and the base name of a *)
(* metaheuristic run.                                                        *)

MaxBenchRows == 2

\* The algorithms of the benchmark table.
BenchAlgorithms ==
    {"NearestNeighbor", "NearestNeighbor+2-Opt", "VND", "SA", "GA-OX", "GA-PMX",
     "Gurobi", "Exact"}

\* The names of the table: an algorithm, alone or with the tag of one of its runs.
BenchNames ==
    BenchAlgorithms \cup
    {a \o "-run" \o Str(k) : a \in BenchAlgorithms, k \in 0..(MaxRuns - 1)}

\* any(x in alg for x in patterns)
AnyIn(alg, patterns) == \E x \in patterns : HasSub(alg, x)

\* Lines 21-33
classify_algorithm(alg) ==
    IF AnyIn(alg, {"NearestNeighbor", "GreedyInsertion", "FarthestInsertion",
                   "Savings", "Sweep", "Regret", "ClusterFirst"})
    THEN "Constructive"
    ELSE IF AnyIn(alg, {"2-Opt", "Swap", "Relocation", "Or-Opt", "VND"})
    THEN "Local Search"
    ELSE IF AnyIn(alg, {"SA-", "TabuSearch", "ILS-", "GA-", "MA-", "ACO-", "MMAS-"})
    THEN "Metaheuristic"
    ELSE IF HasSub(alg, "Gurobi") THEN "Exact"
    ELSE "Other"

\* Line 147: x.rsplit('-', 1)[0]
BaseAlg(x) ==
    LET at == {k \in 1..Len(x) : SubSeq(x, k, k) = "-"}
    IN  IF at = {} THEN x
        ELSE SubSeq(x, 1, (CHOOSE k \in at : \A h \in at : h <= k) - 1)

NoBase == <<>>

InitBench ==
    /\ bench_df \in SeqsUpTo(BenchNames, MaxBenchRows)
    /\ category = <<>>
    /\ base_alg = <<>>
    /\ meta_stats = {}
    /\ bench_pc = "classify"
    /\ RunnerIdle
    /\ PfIdle
    /\ LpIdle
    /\ AggIdle
    /\ GapIdle
    /\ SensIdle
    /\ RepIdle
    /\ NormIdle
    /\ LogIdle
    /\ PlotIdle

\* Line 35: df['category'] = df['algorithm'].apply(classify_algorithm)
BenchClassify ==
    /\ bench_pc = "classify"
    /\ category' = [k \in 1..Len(bench_df) |-> classify_algorithm(bench_df[k])]
    /\ bench_pc' = "meta"
    /\ UNCHANGED <<bench_df, base_alg, meta_stats>>
    /\ UNCHANGED <<runner_vars, pareto_vars, load_vars, agg_vars, gap_vars, sens_vars,
                   rep_vars, norm_vars, log_vars, plot_vars>>

\* Lines 146-151: the rows of category Metaheuristic, their base name, and the
\* groups by base name.
BenchMeta ==
    /\ bench_pc = "meta"
    /\ LET metaheuristics == {k \in 1..Len(bench_df) : category[k] = "Metaheuristic"}
           base == [k \in 1..Len(bench_df) |->
                       IF k \in metaheuristics THEN <<BaseAlg(bench_df[k])>> ELSE NoBase]
       IN  /\ base_alg' = base
           /\ meta_stats' = {[base_alg |-> base[k][1],
                              rows |-> {h \in metaheuristics : base[h] = base[k]}] :
                                 k \in metaheuristics}
    /\ bench_pc' = "done"
    /\ UNCHANGED <<bench_df, category>>
    /\ UNCHANGED <<runner_vars, pareto_vars, load_vars, agg_vars, gap_vars, sens_vars,
                   rep_vars, norm_vars, log_vars, plot_vars>>

NextBench == BenchClassify \/ BenchMeta

SpecBench == InitBench /\ [][NextBench]_vars

\* name ends with a run-index suffix '-run<k>'
HasRunSuffix(name) ==
    \E k \in 1..(Len(name) - 4) :
        /\ SubSeq(name, k, k + 3) = "-run"
        /\ k + 4 <= Len(name)
        /\ \A h \in (k + 4)..Len(name) : SubSeq(name, h, h) \in Range(Digits)

\* name without its run-index suffix, if it has one
StripRunSuffix(name) == IF HasRunSuffix(name) THEN BaseAlg(name) ELSE name

\* C22: the base name of a metaheuristic row is its name without the trailing
\* '-run<k>', and a name with no such suffix is its own base name, so that two
\* rows are in one group exactly when they are runs of the same algorithm.
C22_BaseNameStripsOnlyRunSuffix ==
    (bench_pc = "done") =>
        /\ \A k \in 1..Len(bench_df) :
               base_alg[k] # NoBase => base_alg[k][1] = StripRunSuffix(bench_df[k])
        /\ \A g \in meta_stats : \A k, h \in g.rows :
               StripRunSuffix(bench_df[k]) = StripRunSuffix(bench_df[h])

\* C23: the category of a name is Local Search when it contains '2-Opt' or
\* 'VND', Metaheuristic when it contains 'SA-', 'ILS-', 'GA-', 'ACO-' or
\* 'MMAS-', Exact when it contains 'Gurobi' or 'Exact', Other when it matches
\* no pattern, and every name has exactly one category.
C23_CategoryBySubstring ==
    (bench_pc # "classify") =>
        \A k \in 1..Len(bench_df) :
            LET alg == bench_df[k] IN
            /\ category[k] \in {"Constructive", "Local Search", "Metaheuristic", "Exact",
                                "Other"}
            /\ AnyIn(alg, {"2-Opt", "VND"}) => category[k] = "Local Search"
            /\ (AnyIn(alg, {"SA-", "ILS-", "GA-", "ACO-", "MMAS-"})
                   /\ ~AnyIn(alg, {"2-Opt", "VND"})) => category[k] = "Metaheuristic"
            /\ (AnyIn(alg, {"Gurobi", "Exact"})
                   /\ ~AnyIn(alg, {"2-Opt", "VND", "SA-", "ILS-", "GA-", "ACO-", "MMAS-"}))
                   => category[k] = "Exact"

------------------------------------------------------------------------------
(* run_benchmarks.py: run() and the log of one job.  run() opens log_out     *)
(* twice, once for the standard output and once for the standard error of    *)
(* the process; each open file has its own position, and neither is opened   *)
(* for appending.                                                            *)

MaxBytes == 2

Streams == {"stdout", "stderr"}

\* What an earlier batch left at the path of the log.
OldLogs == {<<>>, <<<<"old", 1>>, <<"old", 2>>, <<"old", 3>>>>}

\* write() of byte b at position off of a file with the bytes f
WriteAt(f, off, b) ==
    IF off < Len(f) THEN [f EXCEPT ![off + 1] = b] ELSE Append(f, b)

InitLog ==
    /\ \E a \in Batches : \E e \in Written(a) : log_path = e.log
    /\ log_file \in OldLogs
    /\ offset = [stdout |-> 0, stderr |-> 0]
    /\ sent = [stdout |-> 0, stderr |-> 0]
    /\ log_exit = 0
    /\ log_console = "Running"
    /\ log_pc = "open"
    /\ RunnerIdle
    /\ PfIdle
    /\ LpIdle
    /\ AggIdle
    /\ GapIdle
    /\ SensIdle
    /\ RepIdle
    /\ NormIdle
    /\ BenchIdle
    /\ PlotIdle

\* Lines 42-45: both opens truncate the file ('wb') and start at position 0;
\* check_call starts the process with the two files as its streams.
RunOpen ==
    /\ log_pc = "open"
    /\ log_file' = <<>>
    /\ offset' = [stdout |-> 0, stderr |-> 0]
    /\ log_pc' = "child"
    /\ UNCHANGED <<log_path, sent, log_exit, log_console>>
    /\ UNCHANGED <<runner_vars, pareto_vars, load_vars, agg_vars, gap_vars, sens_vars,
                   rep_vars, norm_vars, bench_vars, plot_vars>>

\* The process writes its next byte to one of its streams.
ChildWrite ==
    /\ log_pc = "child"
    /\ \E st \in Streams :
          /\ sent[st] < MaxBytes
          /\ sent' = [sent EXCEPT ![st] = @ + 1]
          /\ log_file' = WriteAt(log_file, offset[st], <<st, sent[st] + 1>>)
          /\ offset' = [offset EXCEPT ![st] = @ + 1]
    /\ UNCHANGED <<log_path, log_exit, log_console, log_pc>>
    /\ UNCHANGED <<runner_vars, pareto_vars, load_vars, agg_vars, gap_vars, sens_vars,
                   rep_vars, norm_vars, bench_vars, plot_vars>>

\* The process exits: 0 on success, non-zero on failure.
ChildExit ==
    /\ log_pc = "child"
    /\ \E code \in {0, 1} : log_exit' = code
    /\ log_pc' = "exited"
    /\ UNCHANGED <<log_path, log_file, offset, sent, log_console>>
    /\ UNCHANGED <<runner_vars, pareto_vars, load_vars, agg_vars, gap_vars, sens_vars,
                   rep_vars, norm_vars, bench_vars, plot_vars>>

\* Lines 46-50 and 134-135: the files are closed; a non-zero exit is printed.
RunClose ==
    /\ log_pc = "exited"
    /\ log_console' = IF log_exit # 0 THEN "ERROR running" ELSE log_console
    /\ log_pc' = "done"
    /\ UNCHANGED <<log_path, log_file, offset, sent, log_exit>>
    /\ UNCHANGED <<runner_vars, pareto_vars, load_vars, agg_vars, gap_vars, sens_vars,
                   rep_vars, norm_vars, bench_vars, plot_vars>>

NextLog == RunOpen \/ ChildWrite \/ ChildExit \/ RunClose

SpecLog == InitLog /\ [][NextLog]_vars

\* C24: once the job has ended, with any exit code, every byte the process
\* wrote to its standard output or to its standard error is in the log.
C24_LogHoldsBothStreams ==
    (log_pc = "done") =>
        \A st \in Streams : \A k \in 1..sent[st] : <<st, k>> \in Range(log_file)

====
